---- MODULE Spec2Model ----
(***************************************************************************)
(* Model of swarm-dlq: the swarm_dlq table behind Store, the Processor     *)
(* that ingests dead letters, the recovery Scanner, and the HTTP handlers  *)
(* that retry, discard and bulk-retry entries.  Every store call and every *)
(* bus publish is one atomic step; handlers that make several calls are    *)
(* split at those calls, so that requests and the scanner interleave.      *)
(***************************************************************************)
EXTENDS Integers, Sequences, FiniteSets, TLC

VARIABLES
    store,      \* rows of swarm_dlq, a function dlq_id -> row
    now,        \* the database clock, in hours
    bus,        \* the messages the bus has accepted
    scanner,    \* the Scanner goroutine: position and fetched entries
    cancelled,  \* ctx.Done() of the context given to Scanner.Start
    reqs,       \* in-flight retry and retry-all requests, one per slot
    started,    \* number of scanner passes and management requests started
    markOK,     \* per identifier, number of MarkRecovered calls that succeeded
    okRetried,  \* identifiers for which a manual retry has responded 200
    last        \* the store call, publish or response made by the last step

vars == <<store, now, bus, scanner, cancelled, reqs, started, markOK,
          okRetried, last>>

----------------------------------------------------------------------------
(* Bounds *)

MaxTime == 24
MaxOps == 2

----------------------------------------------------------------------------
(* Program constants *)

RecencyHours == 24

ReasonNoCapableAgent == "no_capable_agent"
ReasonAllAgentsUnavailable == "all_agents_unavailable"
ReasonPolicyDenied == "policy_denied"
ReasonTimeoutAssigned == "timeout_assigned"
ReasonTimeoutInProgress == "timeout_in_progress"
ReasonAgentCrashed == "agent_crashed"
ReasonBootFailure == "boot_failure"
ReasonHealthCheckFailed == "health_check_failed"
ReasonPullFailure == "pull_failure"
ReasonCrashLoop == "crash_loop"

SourceDispatch == "dispatch"
SourceWarren == "warren"

SubjectTaskUnassignable == "dlq.task.unassignable"
SubjectTaskNoAvailableAgent == "dlq.task.no_available_agent"
SubjectTaskPolicyDenied == "dlq.task.policy_denied"
SubjectTaskAssignTimeout == "dlq.task.assignment_timeout"
SubjectTaskExecTimeout == "dlq.task.execution_timeout"
SubjectTaskAgentCrashed == "dlq.task.agent_crashed"
SubjectAgentBootFailure == "dlq.agent.boot_failure"
SubjectAgentPullFailure == "dlq.agent.pull_failure"
SubjectAgentCrashLoop == "dlq.agent.crash_loop"

byAPIRetry == "api-retry"
byAPIRetryAll == "api-retry-all"
byAutoScanner == "auto-scanner"
byManualDiscard == "manual-discard"

StatusOK == 200
StatusNotFound == 404
StatusConflict == 409
StatusInternalServerError == 500

----------------------------------------------------------------------------
(* Wire messages handed to Processor.Process.  Each is the JSON document   *)
(* after json.Unmarshal into Entry, with the bus subject it arrived on;    *)
(* malformed marks a document json.Unmarshal rejects.                      *)

DLQIDs == {"dlq-1", "dlq-2"}
Slots == {1, 2}

NilHistory == [null |-> TRUE, attempts |-> <<>>]
EmptyHistory == [null |-> FALSE, attempts |-> <<>>]

WireEntry(id, subj, payload, reason, source, failedAt, recoverable, recovered) ==
    [DLQID |-> id, OriginalSubject |-> subj, OriginalPayload |-> payload,
     Reason |-> reason, ReasonDetail |-> "", FailedAt |-> failedAt,
     RetryCount |-> 3, MaxRetries |-> 3, RetryHistory |-> NilHistory,
     Source |-> source, Recoverable |-> recoverable, Recovered |-> recovered,
     RecoveredAt |-> IF recovered THEN <<failedAt>> ELSE <<>>,
     RecoveredBy |-> IF recovered THEN "upstream" ELSE ""]

Messages ==
    { [malformed |-> FALSE, subject |-> "dlq.task.unassignable",
       entry |-> WireEntry("dlq-1", "swarm.task.request", "{\"t\":1}",
                           ReasonNoCapableAgent, SourceDispatch, 0, TRUE, FALSE)],
      [malformed |-> FALSE, subject |-> "dlq.task.unassignable",
       entry |-> WireEntry("dlq-1", "swarm.task.other", "{\"t\":2}",
                           ReasonNoCapableAgent, SourceDispatch, 0, FALSE, TRUE)],
      [malformed |-> FALSE, subject |-> "dlq.agent.boot_failure",
       entry |-> WireEntry("dlq-2", "swarm.agent.boot", "{}",
                           ReasonBootFailure, "", 0, TRUE, FALSE)],
      [malformed |-> TRUE, subject |-> "dlq.task.unassignable",
       entry |-> WireEntry("dlq-1", "", "", "", "", 0, FALSE, FALSE)] }

----------------------------------------------------------------------------
(* Store: the SQL statements of store.go over the rows of swarm_dlq *)

\* The text a jsonb column gives back for the JSON text written to it, from
\* character i on: white space outside strings is dropped and every ":" and
\* "," outside strings is followed by one space.  (jsonb also orders the keys
\* of an object and keeps the last of equal keys; the documents here have at
\* most one key.)
RECURSIVE JsonbOut(_, _, _)
JsonbOut(s, i, inString) ==
    IF i > Len(s) THEN ""
    ELSE LET c == SubSeq(s, i, i) IN
         IF inString THEN c \o JsonbOut(s, i + 1, c # "\"")
         ELSE IF c = "\"" THEN c \o JsonbOut(s, i + 1, TRUE)
         ELSE IF c = " " THEN JsonbOut(s, i + 1, FALSE)
         ELSE IF c \in {":", ","} THEN c \o " " \o JsonbOut(s, i + 1, FALSE)
         ELSE c \o JsonbOut(s, i + 1, FALSE)

\* faulty variant: original_payload kept as the bytes received (a bytea or
\* text column)
JsonbVerbatim(payload) == payload

\* original_payload jsonb not null: the value read back after a write
Jsonb(payload) == JsonbOut(payload, 1, FALSE)

\* INSERT ... VALUES ($1..$11): the eleven columns written, the other three
\* (recovered, recovered_at, recovered_by) take the column defaults.
InsertRow(e) ==
    [e EXCEPT !.OriginalPayload = Jsonb(e.OriginalPayload),
              !.Recovered = FALSE, !.RecoveredAt = <<>>, !.RecoveredBy = ""]

\* faulty variant: ON CONFLICT (dlq_id) DO UPDATE, the row overwritten
InsertOverwrite(s, e) ==
    [id \in DOMAIN s \cup {e.DLQID} |->
        IF id = e.DLQID THEN InsertRow(e) ELSE s[id]]

\* INSERT ... ON CONFLICT (dlq_id) DO NOTHING
Insert(s, e) ==
    IF e.DLQID \in DOMAIN s
    THEN s
    ELSE [id \in DOMAIN s \cup {e.DLQID} |->
            IF id = e.DLQID THEN InsertRow(e) ELSE s[id]]

\* faulty variant: the SELECT with "AND recoverable = true" and the 24-hour
\* window of ListRecoverable (the entries are at most 24 hours old here)
GetRecoverableOnly(s, dlqID) ==
    {s[id] : id \in {x \in DOMAIN s : x = dlqID /\ s[x].Recoverable}}

\* SELECT ... WHERE dlq_id = $1: the set of rows found
Get(s, dlqID) == {s[id] : id \in {x \in DOMAIN s : x = dlqID}}

\* faulty variant: the UPDATE without its "AND recovered = false"
MarkRecoveredWhereAnyState(s, dlqID) ==
    {id \in DOMAIN s : id = dlqID}

\* UPDATE ... WHERE dlq_id = $1 AND recovered = false: the rows matched
MarkRecoveredWhere(s, dlqID) ==
    {id \in DOMAIN s : id = dlqID /\ s[id].Recovered = FALSE}

\* faulty variant: the UPDATE without its "recovered_at = now()"
MarkRecoveredSetNoTime(row, t, recoveredBy) ==
    [row EXCEPT !.Recovered = TRUE, !.RecoveredBy = recoveredBy]

\* faulty variant: the UPDATE also sets retry_count = 0
MarkRecoveredSetResetRetries(row, t, recoveredBy) ==
    [row EXCEPT !.Recovered = TRUE, !.RecoveredAt = <<t>>,
                !.RecoveredBy = recoveredBy, !.RetryCount = 0]

\* SET recovered = true, recovered_at = now(), recovered_by = $2
MarkRecoveredSet(row, t, recoveredBy) ==
    [row EXCEPT !.Recovered = TRUE, !.RecoveredAt = <<t>>,
                !.RecoveredBy = recoveredBy]

\* faulty variant: the UPDATE without its "dlq_id = $1"
MarkRecoveredAnyID(s, dlqID, recoveredBy, t) ==
    [id \in DOMAIN s |->
        IF s[id].Recovered = FALSE /\ MarkRecoveredWhere(s, dlqID) # {}
        THEN MarkRecoveredSet(s[id], t, recoveredBy)
        ELSE s[id]]

\* the table after Store.MarkRecovered
MarkRecovered(s, dlqID, recoveredBy, t) ==
    [id \in DOMAIN s |->
        IF id \in MarkRecoveredWhere(s, dlqID)
        THEN MarkRecoveredSet(s[id], t, recoveredBy)
        ELSE s[id]]

\* faulty variant: the rows with the identifier, recovered or not
RowsAffectedAnyState(s, dlqID) ==
    Cardinality({id \in DOMAIN s : id = dlqID})

\* tag.RowsAffected() of Store.MarkRecovered; the call fails when it is 0
RowsAffected(s, dlqID) == Cardinality(MarkRecoveredWhere(s, dlqID))

\* faulty variant: the query without its "AND recovered = false"
ListRecoverableWhereAnyState(s, t) ==
    {id \in DOMAIN s : /\ s[id].Recoverable = TRUE
                       /\ s[id].FailedAt > t - RecencyHours}

\* faulty variant: the recency comparison reversed, "failed_at < now() - ..."
ListRecoverableWhereOlder(s, t) ==
    {id \in DOMAIN s : /\ s[id].Recoverable = TRUE
                       /\ s[id].Recovered = FALSE
                       /\ s[id].FailedAt < t - RecencyHours}

\* faulty variant: the query without its "recoverable = true"
ListRecoverableWhereAnyEntry(s, t) ==
    {id \in DOMAIN s : /\ s[id].Recovered = FALSE
                       /\ s[id].FailedAt > t - RecencyHours}

\* WHERE recoverable = true AND recovered = false
\*   AND failed_at > now() - interval '24 hours'
ListRecoverableWhere(s, t) ==
    {id \in DOMAIN s : /\ s[id].Recoverable = TRUE
                       /\ s[id].Recovered = FALSE
                       /\ s[id].FailedAt > t - RecencyHours}

\* the sequences over ids that list every id once
Orderings(ids) ==
    {q \in [1..Cardinality(ids) -> ids] : \A id \in ids : \E i \in DOMAIN q : q[i] = id}

\* faulty variant: ORDER BY failed_at DESC
ListRecoverableNewestFirst(s, t) ==
    {[i \in DOMAIN q |-> s[q[i]]] :
        q \in {o \in Orderings(ListRecoverableWhere(s, t)) :
                 \A i, j \in DOMAIN o :
                    i < j => s[o[i]].FailedAt >= s[o[j]].FailedAt}}

\* ORDER BY failed_at ASC: every ordering of the matched rows by ascending
\* failed_at (rows with equal failed_at come in any order)
ListRecoverable(s, t) ==
    {[i \in DOMAIN q |-> s[q[i]]] :
        q \in {o \in Orderings(ListRecoverableWhere(s, t)) :
                 \A i, j \in DOMAIN o :
                    i < j => s[o[i]].FailedAt <= s[o[j]].FailedAt}}

\* the five queries of Store.Stats
StatsQueries == {"total", "unrecovered", "recoverable", "by_reason", "by_source"}

\* faulty variant: the GROUP BY without its "WHERE recovered = false"
GroupCountAllRows(s, col) ==
    [v \in {s[id][col] : id \in DOMAIN s} |->
        Cardinality({id \in DOMAIN s : s[id][col] = v})]

\* SELECT col, count(*) ... WHERE recovered = false GROUP BY col, as a map
GroupCount(s, col) ==
    [v \in {s[id][col] : id \in {x \in DOMAIN s : s[x].Recovered = FALSE}} |->
        Cardinality({id \in DOMAIN s : s[id].Recovered = FALSE /\ s[id][col] = v})]

\* the Stats value Store.Stats returns when the queries in failed fail: a
\* failed count leaves its field 0, a failed GROUP BY leaves its map empty
Stats(s, failed) ==
    [Total |-> IF "total" \in failed THEN 0 ELSE Cardinality(DOMAIN s),
     Unrecovered |-> IF "unrecovered" \in failed THEN 0
                     ELSE Cardinality({id \in DOMAIN s : s[id].Recovered = FALSE}),
     Recoverable |-> IF "recoverable" \in failed THEN 0
                     ELSE Cardinality({id \in DOMAIN s :
                                         /\ s[id].Recoverable = TRUE
                                         /\ s[id].Recovered = FALSE}),
     ByReason |-> IF "by_reason" \in failed THEN <<>> ELSE GroupCount(s, "Reason"),
     BySource |-> IF "by_source" \in failed THEN <<>> ELSE GroupCount(s, "Source")]

\* st := &Stats{ByReason: make(map[string]int), BySource: make(map[string]int)}
ZeroStats ==
    [Total |-> 0, Unrecovered |-> 0, Recoverable |-> 0, ByReason |-> <<>>,
     BySource |-> <<>>]

\* the order in which Store.Stats runs its queries
StatsOrder == <<"total", "unrecovered", "recoverable", "by_reason", "by_source">>

\* the field of Stats a query fills
StatsField(q) ==
    CASE q = "total" -> "Total"
      [] q = "unrecovered" -> "Unrecovered"
      [] q = "recoverable" -> "Recoverable"
      [] q = "by_reason" -> "ByReason"
      [] q = "by_source" -> "BySource"

\* st after the k-th query of Store.Stats has run on table s
StatsQuery(st, s, k, fault) ==
    LET q == StatsOrder[k] IN
    [st EXCEPT ![StatsField(q)] =
        Stats(s, IF fault THEN {q} ELSE {})[StatsField(q)]]

\* err != nil of Store.Stats: every query error is dropped, "return st, nil"
StatsErr(failed) == FALSE

----------------------------------------------------------------------------
(* Processor *)

\* strings.HasPrefix(s, prefix)
HasPrefix(s, prefix) ==
    Len(s) >= Len(prefix) /\ SubSeq(s, 1, Len(prefix)) = prefix

inferSource(subject) ==
    IF HasPrefix(subject, "dlq.agent.") THEN SourceWarren ELSE SourceDispatch

\* faulty variant: the source always inferred from the subject
ProcessDefaultsInferAlways(subject, e) ==
    [e EXCEPT !.RetryHistory = IF e.RetryHistory.null THEN EmptyHistory
                               ELSE e.RetryHistory,
              !.Source = inferSource(subject)]

\* the defaults Process fills in before the insert
ProcessDefaults(subject, e) ==
    [e EXCEPT !.RetryHistory = IF e.RetryHistory.null THEN EmptyHistory
                               ELSE e.RetryHistory,
              !.Source = IF e.Source = "" THEN inferSource(subject)
                         ELSE e.Source]

----------------------------------------------------------------------------
(* Events: what the last step did *)

PreState(s, id) ==
    IF id \notin DOMAIN s THEN "absent"
    ELSE IF s[id].Recovered THEN "recovered" ELSE "unrecovered"

\* op: the call made; actor: who made it; ok: whether the call succeeded;
\* fault: the store or the bus was unreachable for this call;
\* pre: the entry's state in the store when the call was made; snap: the
\* recovered flag of the copy the actor had fetched; by: the recoveredBy
\* argument; status: the HTTP status written in this step (0: none);
\* afterOK: the request started after a 200 retry response for this id;
\* body: the document written with the status, for the responses that carry
\* counts.
NoBody == [none |-> TRUE]

Event(op, actor, id, ok, fault, pre, snap, by, status, afterOK) ==
    [op |-> op, actor |-> actor, id |-> id, ok |-> ok, fault |-> fault,
     pre |-> pre, snap |-> snap, by |-> by, status |-> status,
     afterOK |-> afterOK, body |-> NoBody]

NoEvent == Event("none", "none", "", TRUE, FALSE, "na", "na", "", 0, FALSE)

Snap(e) == IF e.Recovered THEN "recovered" ELSE "unrecovered"

\* a new request takes the first free slot (slots are only names)
FirstIdle(r) ==
    /\ reqs[r].kind = "idle"
    /\ \A q \in Slots : q < r => reqs[q].kind # "idle"

\* fetched, done, published and errs are the history of a retry-all request:
\* the identifiers ListRecoverable returned, those that have had a publish
\* attempt, the number of accepted publishes, and the number of entries whose
\* publish or MarkRecovered failed
Idle == [kind |-> "idle", pc |-> "idle", id |-> "", queue |-> <<>>,
         retried |-> 0, failed |-> 0, total |-> 0, afterOK |-> FALSE,
         fetched |-> <<>>, done |-> <<>>, published |-> 0, errs |-> 0,
         st |-> ZeroStats]

----------------------------------------------------------------------------
Init ==
    /\ store = <<>>
    /\ now = 0
    /\ bus = {}
    /\ scanner = [pc |-> "new", queue |-> <<>>]
    /\ cancelled = FALSE
    /\ reqs = [r \in Slots |-> Idle]
    /\ started = 0
    /\ markOK = [id \in DLQIDs |-> 0]
    /\ okRetried = {}
    /\ last = NoEvent

\* err != nil of Store.Insert: only a failed Exec, never a conflict
InsertErr(fault) == fault

\* faulty variant: the json.Unmarshal error not looked at
UnmarshalErrIgnored(m) == FALSE

\* err != nil of json.Unmarshal(data, &entry)
UnmarshalErr(m) == m.malformed

\* p.store.Insert(ctx, entry)
InsertCall(e) ==
    [call |-> "Insert", subject |-> "", data |-> "", dlqID |-> e.DLQID,
     recoveredBy |-> ""]

\* what a Process step records of its message: whether the document was
\* malformed, the subject, the source and retry history of the document, and
\* the store calls made
ProcessBody(m, calls) ==
    [malformed |-> m.malformed, subject |-> m.subject,
     source |-> m.entry.Source, history |-> m.entry.RetryHistory,
     calls |-> calls]

\* Processor.Process(ctx, subject, data)
Process(m) ==
    /\ \E fault \in BOOLEAN :
        IF UnmarshalErr(m)
        THEN /\ fault = FALSE
             /\ last' = [Event("drop", "processor", "", FALSE, FALSE, "na", "na",
                               "", 0, FALSE)
                           EXCEPT !.body = ProcessBody(m, <<>>)]
             /\ UNCHANGED store
        ELSE LET e == ProcessDefaults(m.subject, m.entry) IN
             /\ store' = IF fault THEN store ELSE Insert(store, e)
             /\ last' = [Event("insert", "processor", e.DLQID, ~InsertErr(fault),
                               fault, PreState(store, e.DLQID), "na", "", 0, FALSE)
                           EXCEPT !.body = ProcessBody(m, <<InsertCall(e)>>)]
    /\ UNCHANGED <<now, bus, scanner, cancelled, reqs, started, markOK, okRetried>>

\* a day passes on the database clock
Tick ==
    /\ now + 24 <= MaxTime
    /\ now' = now + 24
    /\ UNCHANGED <<store, bus, scanner, cancelled, reqs, started, markOK,
                   okRetried, last>>

----------------------------------------------------------------------------
(* Calls shared by the scanner and the handlers *)

\* err != nil of Store.MarkRecovered: the Exec failed, or no row was affected
MarkRecoveredErr(fault, s, dlqID) == fault \/ RowsAffected(s, dlqID) = 0

\* the table after a Store.MarkRecovered call (unchanged when the Exec failed)
StoreAfterMark(fault, dlqID, recoveredBy) ==
    IF fault THEN store ELSE MarkRecovered(store, dlqID, recoveredBy, now)

CountMark(fault, dlqID) ==
    IF MarkRecoveredErr(fault, store, dlqID)
    THEN markOK
    ELSE [markOK EXCEPT ![dlqID] = @ + 1]

\* nc.Publish(entry.OriginalSubject, entry.OriginalPayload), accepted
Published(entry) ==
    bus \cup {[Subject |-> entry.OriginalSubject, Data |-> entry.OriginalPayload]}

----------------------------------------------------------------------------
(* Scanner *)

\* Scanner.Start: the goroutine enters its select loop
ScannerStart ==
    /\ scanner.pc = "new"
    /\ scanner' = [scanner EXCEPT !.pc = "select"]
    /\ last' = Event("start", "scanner", "", TRUE, FALSE, "na", "na", "", 0, FALSE)
    /\ UNCHANGED <<store, now, bus, cancelled, reqs, started, markOK, okRetried>>

\* the caller cancels the context given to Start (Spec models the service
\* while that context is live: Cancel and ScanExit are not steps of Next)
Cancel ==
    /\ ~cancelled
    /\ cancelled' = TRUE
    /\ last' = Event("cancel", "env", "", TRUE, FALSE, "na", "na", "", 0, FALSE)
    /\ UNCHANGED <<store, now, bus, scanner, reqs, started, markOK, okRetried>>

\* select, case <-ctx.Done(): return (and close(s.done))
ScanExit ==
    /\ scanner.pc = "select"
    /\ cancelled
    /\ scanner' = [scanner EXCEPT !.pc = "stopped"]
    /\ last' = Event("exit", "scanner", "", TRUE, FALSE, "na", "na", "", 0, FALSE)
    /\ UNCHANGED <<store, now, bus, cancelled, reqs, started, markOK, okRetried>>

\* select, case <-ticker.C: scan begins with store.ListRecoverable
ScanListCall ==
    /\ scanner.pc = "select"
    /\ \E fault \in BOOLEAN :
        IF fault
        THEN /\ scanner' = scanner
             /\ last' = Event("list", "scanner", "", FALSE, TRUE, "na", "na", "",
                              0, FALSE)
        ELSE \E entries \in ListRecoverable(store, now) :
             /\ scanner' = [pc |-> IF Len(entries) = 0 THEN "select" ELSE "publish",
                            queue |-> entries]
             /\ last' = Event("list", "scanner", "", TRUE, FALSE, "na", "na", "",
                              0, FALSE)
    /\ UNCHANGED <<store, now, bus, cancelled, reqs, markOK, okRetried>>

\* a tick of the ticker, counted among the operations started
ScanList ==
    /\ started < MaxOps
    /\ started' = started + 1
    /\ ScanListCall

\* a tick of the ticker, as long as the service runs
ScanListAgain ==
    /\ ScanListCall
    /\ UNCHANGED started

\* faulty variant: the next entry marked without its publish
ScanContinueToMark ==
    [scanner EXCEPT !.queue = Tail(@),
                    !.pc = IF Len(scanner.queue) = 1 THEN "select" ELSE "mark"]

\* where the scanner's loop goes after the entry at the head of its queue
ScanContinue ==
    [scanner EXCEPT !.queue = Tail(@),
                    !.pc = IF Len(scanner.queue) = 1 THEN "select" ELSE "publish"]

\* scan: s.nc.Publish of the next entry; on error, continue
ScanPublish ==
    /\ scanner.pc = "publish"
    /\ LET entry == Head(scanner.queue) IN
       \E ok \in BOOLEAN :
        /\ bus' = IF ok THEN Published(entry) ELSE bus
        /\ scanner' = IF ok THEN [scanner EXCEPT !.pc = "mark"] ELSE ScanContinue
        /\ last' = Event("publish", "scanner", entry.DLQID, ok, ~ok,
                         PreState(store, entry.DLQID), Snap(entry), "", 0, FALSE)
    /\ UNCHANGED <<store, now, cancelled, reqs, started, markOK, okRetried>>

\* scan: s.store.MarkRecovered(ctx, entry.DLQID, "auto-scanner"); on error, continue
ScanMark ==
    /\ scanner.pc = "mark"
    /\ LET entry == Head(scanner.queue) IN
       \E fault \in BOOLEAN :
        /\ store' = StoreAfterMark(fault, entry.DLQID, byAutoScanner)
        /\ markOK' = CountMark(fault, entry.DLQID)
        /\ last' = Event("mark", "scanner", entry.DLQID,
                         ~MarkRecoveredErr(fault, store, entry.DLQID), fault,
                         PreState(store, entry.DLQID), Snap(entry),
                         byAutoScanner, 0, FALSE)
    /\ scanner' = ScanContinue
    /\ UNCHANGED <<now, bus, cancelled, reqs, started, okRetried>>

----------------------------------------------------------------------------
(* Handler: POST /{dlqID}/retry *)

\* faulty variant: handleRetry without its "if entry.Recovered" check
RetryAfterGetUnchecked(err, recovered) ==
    IF err THEN StatusNotFound ELSE 0

\* handleRetry after store.Get: the status written, 0 when it goes on
RetryAfterGet(err, recovered) ==
    IF err THEN StatusNotFound
    ELSE IF recovered THEN StatusConflict
    ELSE 0

\* faulty variant: handleRetry going on to MarkRecovered after a failed Publish
RetryAfterPublishIgnored(err) == 0

\* handleRetry after nc.Publish: the status written, 0 when it goes on
RetryAfterPublish(err) ==
    IF err THEN StatusInternalServerError ELSE 0

\* handleRetry after store.MarkRecovered: the error is logged, 200 is written
RetryAfterMark(err) == StatusOK

\* handleRetry: store.Get and the checks on its result
RetryGet(r, dlqID) ==
    /\ FirstIdle(r)
    /\ started < MaxOps
    /\ started' = started + 1
    /\ \E fault \in BOOLEAN :
       LET rows == IF fault THEN {} ELSE Get(store, dlqID)
           after == dlqID \in okRetried
       IN  IF rows = {}
           THEN /\ reqs' = reqs
                /\ last' = Event("get", "retry", dlqID, FALSE, fault,
                                 PreState(store, dlqID), "na", "",
                                 RetryAfterGet(TRUE, FALSE), after)
           ELSE \E entry \in rows :
                LET status == RetryAfterGet(FALSE, entry.Recovered) IN
                /\ reqs' = IF status = 0
                           THEN [reqs EXCEPT ![r] =
                                   [Idle EXCEPT !.kind = "retry", !.pc = "publish",
                                                !.id = dlqID, !.queue = <<entry>>,
                                                !.afterOK = after]]
                           ELSE reqs
                /\ last' = Event("get", "retry", dlqID, TRUE, FALSE,
                                 PreState(store, dlqID), Snap(entry), "", status,
                                 after)
    /\ UNCHANGED <<store, now, bus, scanner, cancelled, markOK, okRetried>>

\* handleRetry: h.nc.Publish(entry.OriginalSubject, entry.OriginalPayload)
RetryPublish(r) ==
    /\ reqs[r].kind = "retry"
    /\ reqs[r].pc = "publish"
    /\ LET entry == Head(reqs[r].queue) IN
       \E ok \in BOOLEAN :
       LET status == RetryAfterPublish(~ok) IN
        /\ bus' = IF ok THEN Published(entry) ELSE bus
        /\ reqs' = [reqs EXCEPT ![r] = IF status = 0 THEN [@ EXCEPT !.pc = "mark"]
                                       ELSE Idle]
        /\ last' = Event("publish", "retry", entry.DLQID, ok, ~ok,
                         PreState(store, entry.DLQID), Snap(entry), "", status,
                         reqs[r].afterOK)
    /\ UNCHANGED <<store, now, scanner, cancelled, started, markOK, okRetried>>

\* handleRetry: h.store.MarkRecovered(ctx, dlqID, "api-retry") and the response
RetryMark(r) ==
    /\ reqs[r].kind = "retry"
    /\ reqs[r].pc = "mark"
    /\ LET dlqID == reqs[r].id IN
       \E fault \in BOOLEAN :
       LET err == MarkRecoveredErr(fault, store, dlqID)
           status == RetryAfterMark(err)
       IN
        /\ store' = StoreAfterMark(fault, dlqID, byAPIRetry)
        /\ markOK' = CountMark(fault, dlqID)
        /\ okRetried' = IF status = StatusOK THEN okRetried \cup {dlqID} ELSE okRetried
        /\ last' = Event("mark", "retry", dlqID, ~err, fault,
                         PreState(store, dlqID), Snap(Head(reqs[r].queue)),
                         byAPIRetry, status, reqs[r].afterOK)
    /\ reqs' = [reqs EXCEPT ![r] = Idle]
    /\ UNCHANGED <<now, bus, scanner, cancelled, started>>

----------------------------------------------------------------------------
(* Handler: POST /{dlqID}/discard *)

\* handleDiscard: the status written after store.MarkRecovered
DiscardStatus(err) == IF err THEN StatusNotFound ELSE StatusOK

\* handleDiscard
Discard(dlqID) ==
    /\ started < MaxOps
    /\ started' = started + 1
    /\ \E fault \in BOOLEAN :
       LET err == MarkRecoveredErr(fault, store, dlqID) IN
        /\ store' = StoreAfterMark(fault, dlqID, byManualDiscard)
        /\ markOK' = CountMark(fault, dlqID)
        /\ last' = Event("mark", "discard", dlqID, ~err, fault,
                         PreState(store, dlqID), "na", byManualDiscard,
                         DiscardStatus(err), FALSE)
    /\ UNCHANGED <<now, bus, scanner, cancelled, reqs, okRetried>>

----------------------------------------------------------------------------
(* Handler: GET /{dlqID} and GET /stats *)

\* faulty variant: handleGet without its "if err != nil"
GetStatusUnchecked(err) == StatusOK

\* handleGet: the status written after store.Get
GetStatus(err) == IF err THEN StatusNotFound ELSE StatusOK

\* handleGet
GetEntry(dlqID) ==
    /\ started < MaxOps
    /\ started' = started + 1
    /\ \E fault \in BOOLEAN :
       LET rows == IF fault THEN {} ELSE Get(store, dlqID) IN
        IF rows = {}
        THEN last' = Event("get", "get", dlqID, FALSE, fault,
                           PreState(store, dlqID), "na", "", GetStatus(TRUE), FALSE)
        ELSE \E entry \in rows :
             last' = Event("get", "get", dlqID, TRUE, FALSE,
                           PreState(store, dlqID), Snap(entry), "",
                           GetStatus(FALSE), FALSE)
    /\ UNCHANGED <<store, now, bus, scanner, cancelled, reqs, markOK, okRetried>>

\* handleStats: the status written after store.Stats
StatsStatus(err) == IF err THEN StatusInternalServerError ELSE StatusOK

\* handleStats: the call of store.Stats and the response
GetStatsCall ==
    /\ \E failed \in SUBSET StatsQueries :
        last' = [Event("stats", "stats", "", ~StatsErr(failed), failed # {},
                       "na", "na", "", StatsStatus(StatsErr(failed)), FALSE)
                   EXCEPT !.body = Stats(store, failed)]
    /\ UNCHANGED <<store, now, bus, scanner, cancelled, reqs, markOK, okRetried>>

\* handleStats, as one of the requests the service takes
GetStats ==
    /\ started < MaxOps
    /\ started' = started + 1
    /\ GetStatsCall

----------------------------------------------------------------------------
(* Handler: POST /retry-all *)

\* the identifiers of a list of entries
IDs(entries) == [i \in DOMAIN entries |-> entries[i].DLQID]

\* the request's history after the publish attempt on the head of its queue
Attempted(req, ok) ==
    [req EXCEPT !.done = Append(@, Head(req.queue).DLQID),
                !.published = @ + (IF ok THEN 1 ELSE 0),
                !.errs = @ + (IF ok THEN 0 ELSE 1)]

\* the request's history after the MarkRecovered call for the head of its queue
Marked(req, err) == [req EXCEPT !.errs = @ + (IF err THEN 1 ELSE 0)]

\* faulty variant: the loop left at the first failed publish ("return")
RetryAllAbortOnFailure(req, retried, failed) ==
    IF Len(req.queue) = 1 \/ failed > req.failed
    THEN Idle
    ELSE [req EXCEPT !.queue = Tail(@), !.pc = "publish",
                     !.retried = retried, !.failed = failed]

\* faulty variant: a failed publish not counted (no "failed++")
RetryAllContinueUncounted(req, retried, failed) ==
    IF Len(req.queue) = 1
    THEN Idle
    ELSE [req EXCEPT !.queue = Tail(@), !.pc = "publish",
                     !.retried = retried]

\* where handleRetryAll's loop goes after the entry at the head of its queue
RetryAllContinue(req, retried, failed) ==
    IF Len(req.queue) = 1
    THEN Idle
    ELSE [req EXCEPT !.queue = Tail(@), !.pc = "publish",
                     !.retried = retried, !.failed = failed]

\* faulty variant: 500 written when the loop has ended
RetryAllStatusServerError(left) ==
    IF left = 0 THEN StatusInternalServerError ELSE 0

\* the status handleRetryAll writes once its loop has ended, 0 before
RetryAllStatus(left) == IF left = 0 THEN StatusOK ELSE 0

\* the document handleRetryAll writes once its loop has ended: retried,
\* failed and len(entries), here with the history of the request
RetryAllBody(left, req, retried, failed) ==
    IF left = 0
    THEN [retried |-> retried, failed |-> failed, total |-> req.total,
          request |-> [fetched |-> req.fetched, done |-> req.done,
                       published |-> req.published, errs |-> req.errs]]
    ELSE NoBody

\* handleRetryAll: store.ListRecoverable
RetryAllList(r) ==
    /\ FirstIdle(r)
    /\ started < MaxOps
    /\ started' = started + 1
    /\ \E fault \in BOOLEAN :
        IF fault
        THEN /\ reqs' = reqs
             /\ last' = Event("list", "retry-all", "", FALSE, TRUE, "na", "na", "",
                              StatusInternalServerError, FALSE)
        ELSE \E entries \in ListRecoverable(store, now) :
             LET req == [Idle EXCEPT !.kind = "retry-all", !.pc = "publish",
                                     !.queue = entries,
                                     !.total = Len(entries),
                                     !.fetched = IDs(entries)]
             IN
             /\ reqs' = IF Len(entries) = 0 THEN reqs
                        ELSE [reqs EXCEPT ![r] = req]
             /\ last' = [Event("list", "retry-all", "", TRUE, FALSE, "na", "na", "",
                               RetryAllStatus(Len(entries)), FALSE)
                           EXCEPT !.body = RetryAllBody(Len(entries), req, 0, 0)]
    /\ UNCHANGED <<store, now, bus, scanner, cancelled, markOK, okRetried>>

\* handleRetryAll: h.nc.Publish of the next entry; on error failed++, continue
RetryAllPublish(r) ==
    /\ reqs[r].kind = "retry-all"
    /\ reqs[r].pc = "publish"
    /\ LET entry == Head(reqs[r].queue) IN
       \E ok \in BOOLEAN :
       LET req == Attempted(reqs[r], ok)
           left == Len(req.queue) - 1
       IN
        /\ bus' = IF ok THEN Published(entry) ELSE bus
        /\ reqs' = [reqs EXCEPT ![r] =
                      IF ok THEN [req EXCEPT !.pc = "mark"]
                      ELSE RetryAllContinue(req, req.retried, req.failed + 1)]
        /\ last' = [Event("publish", "retry-all", entry.DLQID, ok, ~ok,
                          PreState(store, entry.DLQID), Snap(entry), "",
                          IF ok THEN 0 ELSE RetryAllStatus(left), FALSE)
                      EXCEPT !.body = IF ok THEN NoBody
                                      ELSE RetryAllBody(left, req, req.retried,
                                                        req.failed + 1)]
    /\ UNCHANGED <<store, now, scanner, cancelled, started, markOK, okRetried>>

\* handleRetryAll: h.store.MarkRecovered(ctx, entry.DLQID, "api-retry-all"),
\* the error logged, retried++
RetryAllMark(r) ==
    /\ reqs[r].kind = "retry-all"
    /\ reqs[r].pc = "mark"
    /\ LET entry == Head(reqs[r].queue) IN
       \E fault \in BOOLEAN :
       LET err == MarkRecoveredErr(fault, store, entry.DLQID)
           req == Marked(reqs[r], err)
           left == Len(req.queue) - 1
       IN
        /\ store' = StoreAfterMark(fault, entry.DLQID, byAPIRetryAll)
        /\ markOK' = CountMark(fault, entry.DLQID)
        /\ reqs' = [reqs EXCEPT ![r] =
                      RetryAllContinue(req, req.retried + 1, req.failed)]
        /\ last' = [Event("mark", "retry-all", entry.DLQID, ~err, fault,
                          PreState(store, entry.DLQID), Snap(entry), byAPIRetryAll,
                          RetryAllStatus(left), FALSE)
                      EXCEPT !.body = RetryAllBody(left, req, req.retried + 1,
                                                   req.failed)]
    /\ UNCHANGED <<now, bus, scanner, cancelled, started, okRetried>>

----------------------------------------------------------------------------
Next ==
    \/ \E m \in Messages : Process(m)
    \/ Tick
    \/ ScannerStart
    \/ ScanList
    \/ ScanPublish
    \/ ScanMark
    \/ \E r \in Slots, dlqID \in DLQIDs : RetryGet(r, dlqID)
    \/ \E r \in Slots : RetryPublish(r)
    \/ \E r \in Slots : RetryMark(r)
    \/ \E dlqID \in DLQIDs : Discard(dlqID)
    \/ \E r \in Slots : RetryAllList(r)
    \/ \E r \in Slots : RetryAllPublish(r)
    \/ \E r \in Slots : RetryAllMark(r)

Spec == Init /\ [][Next]_vars

----------------------------------------------------------------------------
(* One scanner pass and one retry-all, each run alone: the calls it makes   *)
(* on the bus and the store, in order, and the table it leaves.  pubOK[i]   *)
(* tells whether the bus accepts the publish of the i-th entry, markFault[i] *)
(* whether the store is unreachable for its MarkRecovered call.             *)

\* nc.Publish(subject, data)
PublishCall(entry) ==
    [call |-> "Publish", subject |-> entry.OriginalSubject,
     data |-> entry.OriginalPayload, dlqID |-> "", recoveredBy |-> ""]

\* store.MarkRecovered(ctx, dlqID, recoveredBy)
MarkRecoveredCall(dlqID, recoveredBy) ==
    [call |-> "MarkRecovered", subject |-> "", data |-> "", dlqID |-> dlqID,
     recoveredBy |-> recoveredBy]

\* faulty variant: MarkRecovered called whether or not the publish failed
scanIterationMarkAlways(acc, t, entry, ok, fault) ==
    [calls |-> acc.calls \o <<PublishCall(entry),
                               MarkRecoveredCall(entry.DLQID, byAutoScanner)>>,
     store |-> IF fault THEN acc.store
               ELSE MarkRecovered(acc.store, entry.DLQID, byAutoScanner, t)]

\* Scanner.scan, one iteration of its loop
scanIteration(acc, t, entry, ok, fault) ==
    IF ~ok
    THEN [acc EXCEPT !.calls = Append(@, PublishCall(entry))]
    ELSE [calls |-> acc.calls \o <<PublishCall(entry),
                                    MarkRecoveredCall(entry.DLQID, byAutoScanner)>>,
          store |-> IF fault THEN acc.store
                    ELSE MarkRecovered(acc.store, entry.DLQID, byAutoScanner, t)]

RECURSIVE scanFrom(_, _, _, _, _, _)
\* faulty variant: "return" instead of "continue" after a failed MarkRecovered
scanFromReturnOnMarkError(i, acc, t, entries, pubOK, markFault) ==
    IF i > Len(entries) THEN acc
    ELSE IF pubOK[i] /\ markFault[i]
    THEN scanIteration(acc, t, entries[i], pubOK[i], markFault[i])
    ELSE scanFrom(i + 1, scanIteration(acc, t, entries[i], pubOK[i], markFault[i]),
                  t, entries, pubOK, markFault)

\* Scanner.scan, its loop from the i-th entry on
scanFrom(i, acc, t, entries, pubOK, markFault) ==
    IF i > Len(entries) THEN acc
    ELSE scanFrom(i + 1, scanIteration(acc, t, entries[i], pubOK[i], markFault[i]),
                  t, entries, pubOK, markFault)

\* Scanner.scan after its ListRecoverable call returned entries
scan(s, t, entries, pubOK, markFault) ==
    scanFrom(1, [calls |-> <<>>, store |-> s], t, entries, pubOK, markFault)

\* handleRetryAll, one iteration of its loop
handleRetryAllIteration(acc, t, entry, ok, fault) ==
    IF ~ok
    THEN [acc EXCEPT !.calls = Append(@, PublishCall(entry)),
                     !.failed = @ + 1]
    ELSE [calls |-> acc.calls \o <<PublishCall(entry),
                                    MarkRecoveredCall(entry.DLQID, byAPIRetryAll)>>,
          store |-> IF fault THEN acc.store
                    ELSE MarkRecovered(acc.store, entry.DLQID, byAPIRetryAll, t),
          retried |-> acc.retried + 1,
          failed |-> acc.failed]

RECURSIVE handleRetryAllFrom(_, _, _, _, _, _)
\* handleRetryAll, its loop from the i-th entry on
handleRetryAllFrom(i, acc, t, entries, pubOK, markFault) ==
    IF i > Len(entries) THEN acc
    ELSE handleRetryAllFrom(i + 1,
                            handleRetryAllIteration(acc, t, entries[i], pubOK[i],
                                                markFault[i]),
                            t, entries, pubOK, markFault)

\* handleRetryAll after its ListRecoverable call returned entries
handleRetryAll(s, t, entries, pubOK, markFault) ==
    handleRetryAllFrom(1, [calls |-> <<>>, store |-> s, retried |-> 0,
                           failed |-> 0],
                       t, entries, pubOK, markFault)

\* a pass and a retry-all are each run alone from the present table, on the
\* same ListRecoverable result and with the same outcomes of their calls
RunPasses ==
    /\ \E entries \in ListRecoverable(store, now) :
       \E pubOK \in [DOMAIN entries -> BOOLEAN],
          markFault \in [DOMAIN entries -> BOOLEAN] :
        last' = [Event("pass", "both", "", TRUE, FALSE, "na", "na", "", 0, FALSE)
                   EXCEPT !.body =
                      [entries |-> entries, pubOK |-> pubOK,
                       markFault |-> markFault,
                       scan |-> scan(store, now, entries, pubOK, markFault),
                       retryAll |-> handleRetryAll(store, now, entries, pubOK,
                                                   markFault)]]
    /\ UNCHANGED <<store, now, bus, scanner, cancelled, reqs, started, markOK,
                   okRetried>>

\* two scanner passes in a row, each run alone, the second one dt hours
\* after the first (the ticker's interval) from the table the first left
RunTwoScans ==
    /\ \E entries \in ListRecoverable(store, now) :
       \E pubOK \in [DOMAIN entries -> BOOLEAN],
          markFault \in [DOMAIN entries -> BOOLEAN],
          dt \in {0, RecencyHours} :
       LET first == scan(store, now, entries, pubOK, markFault) IN
       \E entries2 \in ListRecoverable(first.store, now + dt) :
       \E pubOK2 \in [DOMAIN entries2 -> BOOLEAN],
          markFault2 \in [DOMAIN entries2 -> BOOLEAN] :
        last' = [Event("passes", "scanner", "", TRUE, FALSE, "na", "na", "", 0,
                       FALSE)
                   EXCEPT !.body =
                      [t |-> now, entries |-> entries, pubOK |-> pubOK,
                       markFault |-> markFault, first |-> first, dt |-> dt,
                       entries2 |-> entries2,
                       second |-> scan(first.store, now + dt, entries2, pubOK2,
                                       markFault2)]]
    /\ UNCHANGED <<store, now, bus, scanner, cancelled, reqs, started, markOK,
                   okRetried>>

NextPass ==
    \/ \E m \in Messages : Process(m)
    \/ Tick
    \/ \E dlqID \in DLQIDs : Discard(dlqID)
    \/ RunPasses
    \/ RunTwoScans

SpecPass == Init /\ [][NextPass]_vars

----------------------------------------------------------------------------
(* Shutdown of the scanner: the context given to Start is cancelled, the    *)
(* goroutine leaves its loop and closes s.done, callers of Wait block on    *)
(* s.done.  The channel is closed exactly when scanner.pc is "stopped".     *)
(* With the ticker's channel and ctx.Done() both ready, select takes either *)
(* case, so a pass can still start after the cancellation.                  *)

\* Scanner.Wait is called: the caller blocks on <-s.done
WaitCall(r) ==
    /\ FirstIdle(r)
    /\ reqs' = [reqs EXCEPT ![r] = [Idle EXCEPT !.kind = "wait", !.pc = "blocked"]]
    /\ last' = Event("call", "wait", "", TRUE, FALSE, "na", "na", "", 0, FALSE)
    /\ UNCHANGED <<store, now, bus, scanner, cancelled, started, markOK,
                   okRetried>>

\* faulty variant: Wait returning without receiving from s.done
WaitReturnUnblocked(r) ==
    /\ reqs[r].kind = "wait"
    /\ reqs' = [reqs EXCEPT ![r] = Idle]
    /\ last' = Event("return", "wait", "", TRUE, FALSE, "na", "na", "", 0, FALSE)
    /\ UNCHANGED <<store, now, bus, scanner, cancelled, started, markOK,
                   okRetried>>

\* Scanner.Wait returns: <-s.done receives once the channel is closed
WaitReturn(r) ==
    /\ reqs[r].kind = "wait"
    /\ scanner.pc = "stopped"
    /\ reqs' = [reqs EXCEPT ![r] = Idle]
    /\ last' = Event("return", "wait", "", TRUE, FALSE, "na", "na", "", 0, FALSE)
    /\ UNCHANGED <<store, now, bus, scanner, cancelled, started, markOK,
                   okRetried>>

NextStop ==
    \/ \E m \in Messages : Process(m)
    \/ Tick
    \/ ScannerStart
    \/ Cancel
    \/ ScanExit
    \/ ScanListAgain
    \/ ScanPublish
    \/ ScanMark
    \/ \E r \in Slots : WaitCall(r)
    \/ \E r \in Slots : WaitReturn(r)

\* the goroutine of the scanner and the blocked callers of Wait are
\* scheduled; select takes a case that stays ready eventually
StopFairness ==
    /\ WF_vars(ScanPublish)
    /\ WF_vars(ScanMark)
    /\ SF_vars(ScanExit)
    /\ \A r \in Slots : WF_vars(WaitReturn(r))

SpecStop == Init /\ [][NextStop]_vars /\ StopFairness

----------------------------------------------------------------------------
(* The scanner left running: ingestion, the clock, and passes without end.  *)
(* The ticker fires again and again while the goroutine waits in its        *)
(* select; the store and the bus may fail any call, but not forever: a call *)
(* that is made again and again eventually succeeds.                        *)

NextLive ==
    \/ \E m \in Messages : Process(m)
    \/ Tick
    \/ ScannerStart
    \/ ScanListAgain
    \/ ScanPublish
    \/ ScanMark

LiveFairness ==
    /\ WF_vars(ScannerStart)
    /\ SF_vars(ScanListAgain /\ last'.ok)
    /\ \A id \in DLQIDs :
          /\ SF_vars(ScanPublish /\ last'.ok /\ last'.id = id)
          /\ SF_vars(ScanMark /\ ~last'.fault /\ last'.id = id)

SpecLive == Init /\ [][NextLive]_vars /\ LiveFairness

\* the service with the read-only endpoints of the Management API as well
NextAPI ==
    \/ Next
    \/ \E dlqID \in DLQIDs : GetEntry(dlqID)
    \/ GetStats

SpecAPI == Init /\ [][NextAPI]_vars

----------------------------------------------------------------------------
(* Queries: Store.List behind GET /, Store.ListRecoverable and Store.Stats  *)
(* over tables of every shape                                               *)

DefaultLimit == 50

\* faulty variant: the limit passed on as given, without the default
ListLimitAsGiven(limit) == limit

\* limit := opts.Limit; if limit <= 0 { limit = 50 }
ListLimit(limit) == IF limit <= 0 THEN DefaultLimit ELSE limit

\* WHERE 1=1 [AND recovered = $n] [AND reason = $n] [AND source = $n]
\* (opts.Recovered is a *bool: <<>> is nil, <<b>> points to b)
ListWhere(s, opts) ==
    {id \in DOMAIN s :
        /\ opts.Recovered # <<>> => s[id].Recovered = opts.Recovered[1]
        /\ opts.Reason # "" => s[id].Reason = opts.Reason
        /\ opts.Source # "" => s[id].Source = opts.Source}

\* ORDER BY failed_at DESC: every ordering of ids by descending failed_at
\* (rows with equal failed_at come in any order)
RECURSIVE OrderByFailedAtDesc(_, _)
OrderByFailedAtDesc(s, ids) ==
    IF ids = {} THEN {<<>>}
    ELSE UNION {{<<id>> \o q : q \in OrderByFailedAtDesc(s, ids \ {id})} :
                  id \in {x \in ids : \A y \in ids : s[y].FailedAt <= s[x].FailedAt}}

\* LIMIT $n
Limit(q, n) == SubSeq(q, 1, IF n < Len(q) THEN n ELSE Len(q))

\* the []Entry Store.List returns: a nil slice when no row matched
List(s, opts) ==
    {[null |-> q = <<>>, items |-> [i \in DOMAIN q |-> s[q[i]]]] :
        q \in {Limit(o, ListLimit(opts.Limit)) :
                 o \in OrderByFailedAtDesc(s, ListWhere(s, opts))}}

\* strconv.Atoi on the values the limit parameter takes here
Atoi(v) ==
    CASE v = "0" -> [err |-> FALSE, n |-> 0]
      [] v = "-1" -> [err |-> FALSE, n |-> 0 - 1]
      [] v = "1" -> [err |-> FALSE, n |-> 1]
      [] v = "2" -> [err |-> FALSE, n |-> 2]
      [] OTHER -> [err |-> TRUE, n |-> 0]

\* the query parameters of GET /
ListParams ==
    [recovered : {"", "true", "false", "yes"},
     reason : {"", ReasonBootFailure},
     source : {"", SourceWarren},
     limit : {"", "0", "-1", "1", "2", "abc"}]

\* handleList: the ListOpts built from the query parameters
handleListOpts(p) ==
    [Recovered |-> IF p.recovered # "" THEN <<p.recovered = "true">> ELSE <<>>,
     Reason |-> p.reason,
     Source |-> p.source,
     Limit |-> IF p.limit # "" /\ ~Atoi(p.limit).err /\ Atoi(p.limit).n > 0
               THEN Atoi(p.limit).n ELSE 0]

\* handleList: if entries == nil { entries = []Entry{} }
handleListBody(entries) ==
    IF entries.null THEN [null |-> FALSE, items |-> <<>>] ELSE entries

\* handleList
handleList(p) ==
    /\ \E fault \in BOOLEAN :
        IF fault
        THEN last' = [Event("list", "list", "", FALSE, TRUE, "na", "na", "",
                            StatusInternalServerError, FALSE)
                        EXCEPT !.body = [params |-> p, opts |-> handleListOpts(p)]]
        ELSE \E entries \in List(store, handleListOpts(p)) :
             last' = [Event("list", "list", "", TRUE, FALSE, "na", "na", "",
                            StatusOK, FALSE)
                        EXCEPT !.body = [params |-> p, opts |-> handleListOpts(p),
                                         entries |-> handleListBody(entries)]]
    /\ UNCHANGED <<store, now, bus, scanner, cancelled, reqs, started, markOK,
                   okRetried>>

\* a call of Store.ListRecoverable
ListRecoverableCall ==
    /\ \E fault \in BOOLEAN :
        IF fault
        THEN last' = Event("list-recoverable", "store", "", FALSE, TRUE, "na",
                           "na", "", 0, FALSE)
        ELSE \E entries \in ListRecoverable(store, now) :
             last' = [Event("list-recoverable", "store", "", TRUE, FALSE, "na",
                            "na", "", 0, FALSE)
                        EXCEPT !.body = [t |-> now, entries |-> entries]]
    /\ UNCHANGED <<store, now, bus, scanner, cancelled, reqs, started, markOK,
                   okRetried>>

\* The tables the queries run over.  A row is what Store.Insert wrote, and a
\* recovered row what Store.MarkRecovered then made of it.
QueryIDs == {"dlq-1", "dlq-2", "dlq-3"}

QueryRows(id, kinds) ==
    UNION {{InsertRow(e), MarkRecoveredSet(InsertRow(e), e.FailedAt, byAPIRetry)} :
             e \in {ProcessDefaults("dlq.task.unassignable",
                        WireEntry(id, "swarm.task.request", "{}", k[1][1], k[1][2],
                                  k[2], TRUE, FALSE)) : k \in kinds}}
    \cup {InsertRow(ProcessDefaults("dlq.task.unassignable",
                WireEntry(id, "swarm.task.request", "{}", k[1][1], k[1][2], k[2],
                          FALSE, FALSE))) : k \in kinds}

\* reason, source and failed_at of the rows: failed_at is 24, 14 or 4 hours
\* before the time of the queries
QueryKinds ==
    {<<ReasonNoCapableAgent, SourceDispatch>>, <<ReasonBootFailure, SourceWarren>>,
     <<ReasonNoCapableAgent, SourceWarren>>} \X {0, 10, 20}

FewKinds == {<<<<ReasonNoCapableAgent, SourceDispatch>>, 10>>,
             <<<<ReasonBootFailure, SourceWarren>>, 0>>}

SmallTables ==
    {t \in UNION {[ids -> UNION {QueryRows(id, QueryKinds) : id \in ids}] :
                    ids \in SUBSET QueryIDs} :
        \A id \in DOMAIN t :
            /\ t[id].DLQID = id
            /\ id = "dlq-3" => t[id] \in QueryRows(id, FewKinds)}

\* a table with more rows than the default limit, each with its own failed_at
BigRows == 52

BigTable ==
    LET row(i) == InsertRow(ProcessDefaults("dlq.task.unassignable",
                      WireEntry("dlq-" \o ToString(i), "swarm.task.request", "{}",
                                ReasonNoCapableAgent, SourceDispatch, i, FALSE,
                                FALSE)))
    IN [id \in {row(i).DLQID : i \in 1..BigRows} |->
           CHOOSE r \in {row(i) : i \in 1..BigRows} : r.DLQID = id]

InitQuery ==
    /\ store \in SmallTables \cup {BigTable}
    /\ now = RecencyHours
    /\ bus = {}
    /\ scanner = [pc |-> "new", queue |-> <<>>]
    /\ cancelled = FALSE
    /\ reqs = [r \in Slots |-> Idle]
    /\ started = 0
    /\ markOK = [id \in DLQIDs |-> 0]
    /\ okRetried = {}
    /\ last = NoEvent

\* one query on each table: a query leaves the table as it was
NextQuery ==
    \/ last = NoEvent /\ \E p \in ListParams : handleList(p)
    \/ last = NoEvent /\ ListRecoverableCall
    \/ last = NoEvent /\ GetStatsCall /\ UNCHANGED started

SpecQuery == InitQuery /\ [][NextQuery]_vars

----------------------------------------------------------------------------
(* Ingestion: Processor.Process over documents of every shape, and the     *)
(* subject a publisher derives from a reason with SubjectForReason          *)

\* one attempt recorded before dead-lettering
OneAttempt ==
    [null |-> FALSE,
     attempts |-> <<[Attempt |-> 1, AttemptedAt |-> 0, Agent |-> "agent-1",
                     FailureReason |-> "timeout"]>>]

IngestSubjects ==
    {SubjectTaskUnassignable, SubjectAgentBootFailure, "dlq.agent.custom",
     "dlq.agent"}

IngestSources == {"", SourceDispatch, SourceWarren}

IngestHistories == {NilHistory, EmptyHistory, OneAttempt}

\* documents for dlq-1 of every subject, source and retry history, two
\* documents for dlq-2, and a document json.Unmarshal rejects
IngestMessages ==
    {[malformed |-> FALSE, subject |-> subj,
      entry |-> [WireEntry("dlq-1", "swarm.task.request", "{\"t\":1}",
                           ReasonNoCapableAgent, src, 0, TRUE, FALSE)
                   EXCEPT !.RetryHistory = h]] :
        subj \in IngestSubjects, src \in IngestSources, h \in IngestHistories}
    \cup
    {[malformed |-> FALSE, subject |-> SubjectAgentBootFailure,
      entry |-> WireEntry("dlq-2", "swarm.agent.boot", "{}", ReasonBootFailure,
                          src, 0, TRUE, FALSE)] : src \in {"", SourceDispatch}}
    \cup
    {[malformed |-> TRUE, subject |-> subj,
      entry |-> WireEntry("dlq-1", "", "", "", "", 0, FALSE, FALSE)] :
        subj \in {SubjectTaskUnassignable, SubjectAgentBootFailure}}

\* faulty variant: the default case without its test of the source
UnknownSubjectTask(source) == "dlq.task.unknown"

\* SubjectForReason, the default case
UnknownSubject(source) ==
    IF source = SourceWarren THEN "dlq.agent.unknown" ELSE "dlq.task.unknown"

SubjectForReason(source, reason) ==
    CASE reason = ReasonNoCapableAgent -> SubjectTaskUnassignable
      [] reason = ReasonAllAgentsUnavailable -> SubjectTaskNoAvailableAgent
      [] reason = ReasonPolicyDenied -> SubjectTaskPolicyDenied
      [] reason = ReasonTimeoutAssigned -> SubjectTaskAssignTimeout
      [] reason = ReasonTimeoutInProgress -> SubjectTaskExecTimeout
      [] reason = ReasonAgentCrashed -> SubjectTaskAgentCrashed
      [] reason = ReasonBootFailure -> SubjectAgentBootFailure
      [] reason = ReasonPullFailure -> SubjectAgentPullFailure
      [] reason = ReasonCrashLoop -> SubjectAgentCrashLoop
      [] OTHER -> UnknownSubject(source)

\* the reasons and sources SubjectForReason is called with: the reasons of
\* dlq.go, the empty string and a reason dlq.go does not define
Reasons ==
    {ReasonNoCapableAgent, ReasonAllAgentsUnavailable, ReasonPolicyDenied,
     ReasonTimeoutAssigned, ReasonTimeoutInProgress, ReasonAgentCrashed,
     ReasonBootFailure, ReasonHealthCheckFailed, ReasonPullFailure,
     ReasonCrashLoop, "", "quota_exceeded"}

Sources == {SourceDispatch, SourceWarren, "", "chronicle"}

\* a publisher calls SubjectForReason(source, reason)
SubjectForReasonCall(source, reason) ==
    /\ last' = [Event("subject", "publisher", "", TRUE, FALSE, "na", "na", "",
                      0, FALSE)
                  EXCEPT !.body = [source |-> source, reason |-> reason,
                                   subject |-> SubjectForReason(source, reason)]]
    /\ UNCHANGED <<store, now, bus, scanner, cancelled, reqs, started, markOK,
                   okRetried>>

NextIngest ==
    \/ \E m \in IngestMessages : Process(m)
    \/ \E dlqID \in DLQIDs : Discard(dlqID)
    \/ \E source \in Sources, reason \in Reasons :
         SubjectForReasonCall(source, reason)

SpecIngest == Init /\ [][NextIngest]_vars

----------------------------------------------------------------------------
(* Passes over entries of different failure times: the scanner and retry-all *)
(* start on a table that holds entries already, while ingestion goes on      *)

\* the failure times of the entries in the table at the start
OrderTimes == {0, 10}

\* the time at the start: every entry is less than 24 hours old
OrderNow == 20

OrderTables ==
    {t \in UNION {[ids -> UNION {QueryRows(id, {<<<<ReasonNoCapableAgent,
                                                    SourceDispatch>>, f>> :
                                                    f \in OrderTimes})
                                 : id \in ids}] : ids \in SUBSET DLQIDs} :
        \A id \in DOMAIN t : /\ t[id].DLQID = id
                             /\ t[id].Recoverable /\ ~t[id].Recovered}

InitOrder ==
    /\ store \in OrderTables
    /\ now = OrderNow
    /\ bus = {}
    /\ scanner = [pc |-> "new", queue |-> <<>>]
    /\ cancelled = FALSE
    /\ reqs = [r \in Slots |-> Idle]
    /\ started = 0
    /\ markOK = [id \in DLQIDs |-> 0]
    /\ okRetried = {}
    /\ last = NoEvent

NextOrder ==
    \/ \E m \in Messages : Process(m)
    \/ ScannerStart
    \/ ScanList
    \/ ScanPublish
    \/ ScanMark
    \/ \E r \in Slots : RetryAllList(r)
    \/ \E r \in Slots : RetryAllPublish(r)
    \/ \E r \in Slots : RetryAllMark(r)

SpecOrder == InitOrder /\ [][NextOrder]_vars

----------------------------------------------------------------------------
(* GET /stats query by query, while the processor and the other handlers   *)
(* write to the table: Store.Stats opens no transaction                     *)

\* handleStats up to the first query of Store.Stats
StatsBegin(r) ==
    /\ started < MaxOps
    /\ started' = started + 1
    /\ FirstIdle(r)
    /\ \E fault \in BOOLEAN :
        /\ reqs' = [reqs EXCEPT ![r] =
                       [Idle EXCEPT !.kind = "stats", !.pc = StatsOrder[2],
                                    !.done = <<1>>,
                                    !.errs = IF fault THEN 1 ELSE 0,
                                    !.st = StatsQuery(ZeroStats, store, 1, fault)]]
        /\ last' = Event(StatsOrder[1], "stats", "", ~fault, fault, "na", "na",
                         "", 0, FALSE)
    /\ UNCHANGED <<store, now, bus, scanner, cancelled, markOK, okRetried>>

\* the next query of Store.Stats; after the last one handleStats responds
StatsNext(r) ==
    /\ reqs[r].kind = "stats"
    /\ \E fault \in BOOLEAN :
        LET k == Len(reqs[r].done) + 1
            st == StatsQuery(reqs[r].st, store, k, fault)
            errs == reqs[r].errs + (IF fault THEN 1 ELSE 0) IN
        IF k < Len(StatsOrder)
        THEN /\ reqs' = [reqs EXCEPT ![r].pc = StatsOrder[k + 1],
                                     ![r].done = Append(@, k),
                                     ![r].errs = errs, ![r].st = st]
             /\ last' = Event(StatsOrder[k], "stats", "", ~fault, fault, "na",
                              "na", "", 0, FALSE)
        ELSE /\ reqs' = [reqs EXCEPT ![r] = Idle]
             /\ last' = [Event("stats", "stats", "", ~StatsErr({}), errs > 0,
                               "na", "na", "", StatsStatus(StatsErr({})), FALSE)
                           EXCEPT !.body = st]
    /\ UNCHANGED <<store, now, bus, scanner, cancelled, started, markOK,
                   okRetried>>

NextStats ==
    \/ \E m \in Messages : Process(m)
    \/ \E dlqID \in DLQIDs : Discard(dlqID)
    \/ \E r \in Slots : StatsBegin(r)
    \/ \E r \in Slots : StatsNext(r)

SpecStats == Init /\ [][NextStats]_vars

----------------------------------------------------------------------------
(* Publisher: the dead-letter events a producer sends to the DLQ stream *)

\* the payloads handed to Publish: "{" is not a JSON document
PublishPayloads == {"{\"t\":1}", "{"}

\* PublishOpts
PublishOptsSet ==
    [OriginalSubject : {"swarm.task.request"},
     OriginalPayload : PublishPayloads,
     Reason : {ReasonNoCapableAgent, ReasonBootFailure, ReasonHealthCheckFailed},
     RetryHistory : {NilHistory, EmptyHistory},
     Recoverable : BOOLEAN]

\* uuid.New().String(): an identifier no earlier call has drawn
NewUUID == "uuid-" \o ToString(started + 1)

\* faulty variant: the entry built without the default of its retry history
PublishEntryNilHistory(source, opts) ==
    [DLQID |-> NewUUID, OriginalSubject |-> opts.OriginalSubject,
     OriginalPayload |-> opts.OriginalPayload, Reason |-> opts.Reason,
     ReasonDetail |-> "", FailedAt |-> now, RetryCount |-> 3, MaxRetries |-> 3,
     RetryHistory |-> opts.RetryHistory,
     Source |-> source, Recoverable |-> opts.Recoverable, Recovered |-> FALSE,
     RecoveredAt |-> <<>>, RecoveredBy |-> ""]

\* the Entry that Publish builds from its options
PublishEntry(source, opts) ==
    [DLQID |-> NewUUID, OriginalSubject |-> opts.OriginalSubject,
     OriginalPayload |-> opts.OriginalPayload, Reason |-> opts.Reason,
     ReasonDetail |-> "", FailedAt |-> now, RetryCount |-> 3, MaxRetries |-> 3,
     RetryHistory |-> IF opts.RetryHistory.null THEN EmptyHistory
                      ELSE opts.RetryHistory,
     Source |-> source, Recoverable |-> opts.Recoverable, Recovered |-> FALSE,
     RecoveredAt |-> <<>>, RecoveredBy |-> ""]

\* err != nil of json.Marshal(entry): a json.RawMessage that is not a JSON
\* document cannot be encoded
MarshalErr(e) == e.OriginalPayload = "{"

\* json.Marshal(entry): the document by JSON key; recovered_at, recovered_by
\* and reason_detail are omitempty
Marshal(e) ==
    [k \in {"dlq_id", "original_subject", "original_payload", "reason",
            "failed_at", "retry_count", "max_retries", "retry_history",
            "source", "recoverable", "recovered"}
          \cup (IF e.ReasonDetail # "" THEN {"reason_detail"} ELSE {})
          \cup (IF e.RecoveredAt # <<>> THEN {"recovered_at"} ELSE {})
          \cup (IF e.RecoveredBy # "" THEN {"recovered_by"} ELSE {}) |->
        CASE k = "dlq_id" -> e.DLQID
          [] k = "original_subject" -> e.OriginalSubject
          [] k = "original_payload" -> e.OriginalPayload
          [] k = "reason" -> e.Reason
          [] k = "reason_detail" -> e.ReasonDetail
          [] k = "failed_at" -> e.FailedAt
          [] k = "retry_count" -> e.RetryCount
          [] k = "max_retries" -> e.MaxRetries
          [] k = "retry_history" -> e.RetryHistory
          [] k = "source" -> e.Source
          [] k = "recoverable" -> e.Recoverable
          [] k = "recovered" -> e.Recovered
          [] k = "recovered_at" -> e.RecoveredAt
          [] k = "recovered_by" -> e.RecoveredBy]

\* p.nc.Publish(subject, data)
DLQPublishCall(subject, data) == [call |-> "Publish", subject |-> subject, data |-> data]

\* NewPublisher(nc, source).Publish(opts); err is the error returned
PublisherPublish(source, opts) ==
    /\ started < MaxOps
    /\ started' = started + 1
    /\ LET entry == PublishEntry(source, opts)
           subject == SubjectForReason(source, opts.Reason)
       IN IF MarshalErr(entry)
          THEN /\ last' = [Event("publish", "publisher", "", FALSE, FALSE, "na",
                                 "na", "", 0, FALSE)
                             EXCEPT !.body = [source |-> source, opts |-> opts,
                                              calls |-> <<>>, err |-> "marshal"]]
               /\ UNCHANGED bus
          ELSE \E ok \in BOOLEAN :
               /\ bus' = IF ok THEN bus \cup {[Subject |-> subject,
                                                Data |-> Marshal(entry)]}
                          ELSE bus
               /\ last' = [Event("publish", "publisher", entry.DLQID, ok, ~ok,
                                 "na", "na", "", 0, FALSE)
                             EXCEPT !.body =
                               [source |-> source, opts |-> opts,
                                calls |-> <<DLQPublishCall(subject, Marshal(entry))>>,
                                err |-> IF ok THEN "" ELSE "publish"]]
    /\ UNCHANGED <<store, now, scanner, cancelled, reqs, markOK, okRetried>>

NextPublish ==
    \/ \E source \in Sources, opts \in PublishOptsSet : PublisherPublish(source, opts)
    \/ Tick

SpecPublish == Init /\ [][NextPublish]_vars

----------------------------------------------------------------------------
(* Properties *)

Recovering == {"scanner", "retry", "retry-all"}

\* C1: for every identifier at most one MarkRecovered call ever succeeds, and
\* a MarkRecovered call on an identifier that is absent or already recovered
\* fails, whichever of the scanner, retry, retry-all or discard makes it.
C1_MarkRecoveredAtMostOnce ==
    /\ \A id \in DLQIDs : markOK[id] <= 1
    /\ (last.op = "mark" /\ last.pre \in {"absent", "recovered"}) => ~last.ok

\* an actor that fetched the entry unrecovered lost the race: its call found
\* the entry recovered by another actor, and failed
C1_Witness ==
    /\ last.op = "mark"
    /\ last.pre = "recovered"
    /\ last.snap = "unrecovered"
    /\ ~last.fault
    /\ ~last.ok
    /\ markOK[last.id] = 1
    /\ store[last.id].RecoveredBy # last.by

\* C2 as stated: no scanner, retry-all or retry publish happens while the
\* store records the entry as recovered.
C2_NoPublishWhileRecovered ==
    (last.op = "publish" /\ last.actor \in Recovering) => last.pre # "recovered"

\* C2 amended: every entry the scanner, retry-all or a manual retry publishes
\* was unrecovered in the copy that actor fetched from the store, and every
\* fetched copy still waiting to be published is unrecovered.
C2_NoPublishOfFetchedRecovered ==
    /\ (last.op = "publish" /\ last.actor \in Recovering) => last.snap = "unrecovered"
    /\ \A i \in DOMAIN scanner.queue : ~scanner.queue[i].Recovered
    /\ \A r \in Slots : \A i \in DOMAIN reqs[r].queue : ~reqs[r].queue[i].Recovered

\* a publish of an entry that another actor recovered after it was fetched
C2_Witness ==
    /\ last.op = "publish"
    /\ last.actor \in Recovering
    /\ last.ok
    /\ last.snap = "unrecovered"
    /\ last.pre = "recovered"

\* C3: an entry with recoverable=false is never published and never marked
\* by a scanner pass or by retry-all.
C3_NonRecoverableUntouched ==
    /\ (last.op \in {"publish", "mark"} /\ last.actor \in {"scanner", "retry-all"})
          => (last.id \in DOMAIN store /\ store[last.id].Recoverable)
    /\ \A id \in DOMAIN store :
          store[id].RecoveredBy \in {byAutoScanner, byAPIRetryAll}
             => store[id].Recoverable

\* a pass or a retry-all has published and marked an entry while the store
\* held an unrecovered entry with recoverable=false
C3_Witness ==
    /\ last.op = "mark"
    /\ last.actor \in {"scanner", "retry-all"}
    /\ last.ok
    /\ \E id \in DOMAIN store : ~store[id].Recoverable /\ ~store[id].Recovered

\* C4: every stored entry with recovered=true has recovered_at and
\* recovered_by set, and every entry with recovered=false has neither.
C4_RecoveredFieldsTogether ==
    \A id \in DOMAIN store :
        IF store[id].Recovered
        THEN store[id].RecoveredAt # <<>> /\ store[id].RecoveredBy # ""
        ELSE store[id].RecoveredAt = <<>> /\ store[id].RecoveredBy = ""

\* one entry recovered and one not, the latter ingested from a message that
\* carried recovered=true
C4_Witness ==
    /\ \E id \in DOMAIN store : store[id].Recovered
    /\ \E id \in DOMAIN store :
          ~store[id].Recovered /\ store[id].OriginalPayload = Jsonb("{\"t\":2}")

\* C5: once an entry is recovered it stays recovered and its recovered_at and
\* recovered_by never change.
C5_RecoveredIsTerminal ==
    [][\A id \in DOMAIN store :
          store[id].Recovered =>
             /\ id \in DOMAIN store'
             /\ store'[id].Recovered
             /\ store'[id].RecoveredAt = store[id].RecoveredAt
             /\ store'[id].RecoveredBy = store[id].RecoveredBy]_vars

\* a day after the entry was recovered, another actor's MarkRecovered call
\* reached it without a store fault
C5_Witness ==
    /\ last.op = "mark"
    /\ last.pre = "recovered"
    /\ ~last.fault
    /\ now = 24
    /\ store[last.id].RecoveredAt = <<0>>
    /\ store[last.id].RecoveredBy # last.by

\* C6: an insert of an identifier that already exists returns success and
\* leaves the store unchanged in every field, so an entry ingested again
\* after its recovery stays recovered, and inserting an entry twice gives
\* the same store as inserting it once.
C6_InsertConflictIsNoOp ==
    /\ [][(last'.op = "insert" /\ last'.pre # "absent")
             => (store' = store /\ (last'.fault \/ last'.ok))]_vars
    /\ [](\A m \in Messages :
            ~m.malformed =>
               LET e == ProcessDefaults(m.subject, m.entry) IN
               /\ Insert(Insert(store, e), e) = Insert(store, e)
               /\ e.DLQID \in DOMAIN store => Insert(store, e) = store)

\* a dead letter was ingested again after it was recovered, with no store
\* fault, and is still recovered
C6_Witness ==
    /\ last.op = "insert"
    /\ last.pre = "recovered"
    /\ last.ok
    /\ store[last.id].Recovered
    /\ store[last.id].RecoveredBy = byAPIRetry

\* C7: a manual retry whose Get returns an entry that is already recovered
\* responds 409, publishes nothing, calls no MarkRecovered, leaves the store
\* unchanged and ends there.
C7_RetryOfRecoveredConflicts ==
    [][(started' # started /\ last'.op = "get" /\ last'.actor = "retry"
          /\ last'.snap = "recovered")
         => /\ last'.status = StatusConflict
            /\ store' = store
            /\ bus' = bus
            /\ markOK' = markOK
            /\ reqs' = reqs]_vars

\* a manual retry found its entry recovered and answered 409
C7_Witness ==
    /\ last.op = "get"
    /\ last.actor = "retry"
    /\ last.snap = "recovered"
    /\ last.status = StatusConflict

\* C8: when the bus rejects the publish of a manual retry, the request
\* responds 500 and ends without calling MarkRecovered, and the store is
\* left unchanged.
C8_RetryPublishFailure ==
    [][(reqs' # reqs /\ last'.op = "publish" /\ last'.actor = "retry"
          /\ ~last'.ok)
         => /\ last'.status = StatusInternalServerError
            /\ store' = store
            /\ bus' = bus
            /\ markOK' = markOK
            /\ \A r \in Slots : reqs'[r] # reqs[r] => reqs'[r] = Idle]_vars

\* a manual retry's publish was rejected, 500 was answered and the entry is
\* still unrecovered
C8_Witness ==
    /\ last.op = "publish"
    /\ last.actor = "retry"
    /\ ~last.ok
    /\ last.status = StatusInternalServerError
    /\ last.id \in DOMAIN store
    /\ ~store[last.id].Recovered
    /\ \A r \in Slots : reqs[r] = Idle

\* C9 as stated: when a manual retry's publish succeeded and its
\* MarkRecovered call fails, the request responds 500, not 200.
C9_RetryMarkFailureReported ==
    (last.op = "mark" /\ last.actor = "retry" /\ ~last.ok)
       => last.status = StatusInternalServerError

\* C10 as stated: a manual retry started after a manual retry of the same
\* identifier responded 200 publishes nothing and responds 409 (a request
\* cut short by an unreachable store or bus, which publishes nothing either,
\* is left aside).
C10_RetryAfterSuccessConflicts ==
    (last.actor = "retry" /\ last.afterOK)
       => /\ ~(last.op = "publish" /\ last.ok)
          /\ last.status # 0 => (last.status = StatusConflict \/ last.fault)

\* C11: a discard of an existing unrecovered entry, the store reachable,
\* responds 200, sets recovered=true with recovered_by "manual-discard" and
\* recovered_at now(), publishes nothing and changes no other entry.
C11_DiscardMarksWithoutPublish ==
    [][(started' # started /\ last'.actor = "discard"
          /\ last'.pre = "unrecovered" /\ ~last'.fault)
         => /\ last'.status = StatusOK
            /\ DOMAIN store' = DOMAIN store
            /\ store'[last'.id] =
                  [store[last'.id] EXCEPT !.Recovered = TRUE,
                                          !.RecoveredAt = <<now>>,
                                          !.RecoveredBy = byManualDiscard]
            /\ \A id \in DOMAIN store : id # last'.id => store'[id] = store[id]
            /\ bus' = bus
            /\ reqs' = reqs
            /\ scanner' = scanner]_vars

\* an entry was discarded with 200 while another entry was unrecovered, and
\* nothing has ever been published
C11_Witness ==
    /\ last.actor = "discard"
    /\ last.pre = "unrecovered"
    /\ last.status = StatusOK
    /\ store[last.id].RecoveredBy = byManualDiscard
    /\ \E id \in DOMAIN store : id # last.id /\ ~store[id].Recovered
    /\ bus = {}

\* C12 as stated: a discard of an entry that is already recovered responds
\* with a conflict, not with the 404 given for an absent identifier, and
\* leaves the entry unchanged.
C12_DiscardOfRecoveredConflicts ==
    (last.actor = "discard" /\ last.pre = "recovered" /\ ~last.fault)
       => /\ last.status = StatusConflict
          /\ last.status # StatusNotFound

\* C13: for an identifier absent from the store, the store reachable,
\* get-by-id, manual retry and discard each respond 404, publish nothing,
\* mark nothing and leave the store unchanged, and the request ends there.
C13_AbsentIsNotFound ==
    [][(started' # started /\ last'.actor \in {"get", "retry", "discard"}
          /\ last'.pre = "absent" /\ ~last'.fault)
         => /\ last'.status = StatusNotFound
            /\ ~last'.ok
            /\ store' = store
            /\ bus' = bus
            /\ markOK' = markOK
            /\ reqs' = reqs]_vars

\* get-by-id answered 404 for an absent identifier while the store, which
\* was reachable, held another entry
C13_Witness ==
    /\ last.actor = "get"
    /\ last.pre = "absent"
    /\ ~last.fault
    /\ last.status = StatusNotFound
    /\ last.id \notin DOMAIN store
    /\ DOMAIN store # {}

\* C14 as stated: when the store is unreachable for the Get or MarkRecovered
\* call of get-by-id, manual retry or discard, the request responds with a
\* server fault, not with not-found and not with success.
C14_StoreFaultIsServerFault ==
    (last.fault /\ last.actor \in {"get", "retry", "discard"}
        /\ last.op \in {"get", "mark"})
       => last.status = StatusInternalServerError

\* C15 as stated: when a query of Store.Stats fails, Stats returns an error
\* and GET /stats responds 500.
C15_StatsFaultSurfaced ==
    (last.op = "stats" /\ last.fault)
       => (~last.ok /\ last.status = StatusInternalServerError)

\* C16: in a retry-all every entry of the fetched list gets exactly one
\* publish attempt, in the list's order, whatever the outcome of the publish
\* and MarkRecovered calls before it: the request is never left before the
\* end of its list, and it then responds 200, also when every entry failed.
C16_RetryAllAttemptsEveryEntry ==
    /\ \A r \in Slots :
          reqs[r].kind = "retry-all" =>
             /\ reqs[r].queue # <<>>
             /\ Len(reqs[r].fetched) = reqs[r].total
             /\ \A i, j \in DOMAIN reqs[r].fetched :
                   i # j => reqs[r].fetched[i] # reqs[r].fetched[j]
             /\ reqs[r].fetched =
                   reqs[r].done \o IDs(IF reqs[r].pc = "mark"
                                       THEN Tail(reqs[r].queue)
                                       ELSE reqs[r].queue)
    /\ (last.actor = "retry-all" /\ last.ok) => last.status \in {0, StatusOK}
    /\ (last.actor = "retry-all" /\ last.op # "list")
          => last.status \in {0, StatusOK}
    /\ (last.actor = "retry-all" /\ last.status = StatusOK)
          => last.body.request.done = last.body.request.fetched
    /\ (last.actor = "retry-all" /\ last.status = 0)
          => \E r \in Slots :
                /\ reqs[r].kind = "retry-all"
                /\ \/ last.op = "list" /\ reqs[r].done = <<>>
                   \/ /\ reqs[r].done # <<>>
                      /\ reqs[r].done[Len(reqs[r].done)] = last.id

\* a retry-all of two entries answered 200 after the publish of one entry
\* and the MarkRecovered call of the other had failed
C16_Witness ==
    /\ last.actor = "retry-all"
    /\ last.status = StatusOK
    /\ last.body.total = 2
    /\ last.body.request.published = 1
    /\ last.body.request.errs = 2
    /\ Len(last.body.request.done) = 2

\* C17: every retry-all response has retried + failed = total, where total
\* is the number of entries ListRecoverable returned to the request and
\* retried is the number of messages the request published; when no publish
\* and no MarkRecovered call failed, retried = total and failed = 0.
C17_RetryAllCountsAddUp ==
    (last.actor = "retry-all" /\ last.status = StatusOK)
       => /\ last.body.retried + last.body.failed = last.body.total
          /\ last.body.total = Len(last.body.request.fetched)
          /\ last.body.retried = last.body.request.published
          /\ last.body.request.errs = 0
                => (last.body.retried = last.body.total /\ last.body.failed = 0)

\* a retry-all of two entries, no call of which failed, answered total=2,
\* retried=2, failed=0
C17_Witness ==
    /\ last.actor = "retry-all"
    /\ last.status = StatusOK
    /\ last.body.total = 2
    /\ last.body.retried = 2
    /\ last.body.failed = 0
    /\ last.body.request.errs = 0

\* C18 as stated: in a retry-all response, failed counts the entries whose
\* publish or MarkRecovered call failed, and retried counts the others.
C18_RetryAllFailuresCounted ==
    (last.actor = "retry-all" /\ last.status = StatusOK)
       => /\ last.body.failed = last.body.request.errs
          /\ last.body.retried = last.body.total - last.body.request.errs

\* C20: when ListRecoverable fails, a retry-all responds 500 and a scanner
\* pass ends at once, nothing published, nothing marked and no entry
\* fetched; and a retry-all responds 500 only when its ListRecoverable failed.
C20_ListFaultEndsPass ==
    /\ [][(started' # started /\ last'.op = "list" /\ ~last'.ok)
            => /\ last'.actor = "retry-all"
                     => last'.status = StatusInternalServerError
               /\ store' = store
               /\ bus' = bus
               /\ markOK' = markOK
               /\ reqs' = reqs
               /\ scanner' = scanner]_vars
    /\ []((last.actor = "retry-all" /\ last.status # 0)
            => /\ last.status \in {StatusOK, StatusInternalServerError}
               /\ last.status = StatusInternalServerError
                     <=> (last.op = "list" /\ last.fault))

\* a retry-all answered 500 on a failed ListRecoverable while the store held
\* an entry a pass would have fetched, and nothing has been published
C20_Witness ==
    /\ last.actor = "retry-all"
    /\ last.op = "list"
    /\ last.fault
    /\ last.status = StatusInternalServerError
    /\ ListRecoverableWhere(store, now) # {}
    /\ bus = {}
    /\ \A r \in Slots : reqs[r] = Idle

\* the calls without their recoveredBy argument
Unlabelled(calls) == [i \in DOMAIN calls |-> [calls[i] EXCEPT !.recoveredBy = ""]]

\* the table without its recovered_by column
UnlabelledStore(s) == [id \in DOMAIN s |-> [s[id] EXCEPT !.RecoveredBy = ""]]

\* C19 as stated: from the same table and with the same outcomes, a scanner
\* pass and a retry-all make the same calls with the same arguments in the
\* same order, and leave the same table.
C19_PassesMakeSameCalls ==
    last.op = "pass"
       => /\ last.body.scan.calls = last.body.retryAll.calls
          /\ last.body.scan.store = last.body.retryAll.store

\* C19 amended: from the same table, on the same ListRecoverable result and
\* with the same outcomes, a scanner pass and a retry-all make the same
\* calls in the same order with the same arguments except the recoveredBy
\* label of MarkRecovered ("auto-scanner" for the pass, "api-retry-all" for
\* retry-all), and leave tables that differ in recovered_by only.
C19_PassesEqualUpToLabel ==
    last.op = "pass"
       => LET a == last.body.scan
              b == last.body.retryAll
          IN  /\ Unlabelled(a.calls) = Unlabelled(b.calls)
              /\ UnlabelledStore(a.store) = UnlabelledStore(b.store)
              /\ \A i \in DOMAIN a.calls :
                    a.calls[i].call = "MarkRecovered"
                       => /\ a.calls[i].recoveredBy = byAutoScanner
                          /\ b.calls[i].recoveredBy = byAPIRetryAll

\* a pass and a retry-all over two entries, the publish of the first
\* rejected, the second published and marked: three calls each, and the two
\* tables differ in the recovered_by of the second entry
C19_Witness ==
    /\ last.op = "pass"
    /\ Len(last.body.entries) = 2
    /\ last.body.pubOK = <<FALSE, TRUE>>
    /\ last.body.markFault = <<FALSE, FALSE>>
    /\ Len(last.body.scan.calls) = 3
    /\ Len(last.body.retryAll.calls) = 3
    /\ last.body.scan.store # last.body.retryAll.store
    /\ last.body.scan.store # store

\* C21: in a scanner pass MarkRecovered(id, "auto-scanner") is called for an
\* entry only once the bus has accepted that entry's publish; when the
\* publish fails, no mark follows for the entry, the entry is left as it was
\* in the store, and the pass goes on with the next entry of its list.
C21_ScannerMarksAfterPublish ==
    /\ scanner.pc = "mark"
          => [Subject |-> Head(scanner.queue).OriginalSubject,
              Data |-> Head(scanner.queue).OriginalPayload] \in bus
    /\ (last.actor = "scanner" /\ last.op = "mark")
          => /\ last.by = byAutoScanner
             /\ \E msg \in bus : \E id \in DOMAIN store :
                   /\ id = last.id
                   /\ msg.Subject = store[id].OriginalSubject
                   /\ msg.Data = store[id].OriginalPayload
    /\ (last.actor = "scanner" /\ last.op = "publish" /\ ~last.ok)
          => /\ scanner.pc \in {"select", "publish"}
             /\ scanner.pc = "select" <=> scanner.queue = <<>>
             /\ \A i \in DOMAIN scanner.queue : scanner.queue[i].DLQID # last.id
             /\ PreState(store, last.id) = last.pre
             /\ markOK[last.id] = 0 => PreState(store, last.id) = "unrecovered"

\* the publish of the first of two fetched entries was rejected: the entry
\* is unrecovered, nothing has been published, and the pass is at the
\* publish of the second entry
C21_Witness ==
    /\ last.actor = "scanner"
    /\ last.op = "publish"
    /\ ~last.ok
    /\ scanner.pc = "publish"
    /\ Len(scanner.queue) = 1
    /\ ~store[last.id].Recovered
    /\ bus = {}

\* the Publish calls among the calls of a pass
IsPublishCall(c) == c.call = "Publish"

PublishCalls(calls) == SelectSeq(calls, IsPublishCall)

\* the entries of a pass whose publish was accepted and whose MarkRecovered
\* call failed
MarkFailed(b) == {k \in DOMAIN b.entries : b.pubOK[k] /\ b.markFault[k]}

\* C22 as stated: when a scanner pass publishes an entry and its
\* MarkRecovered call fails, the pass goes on with the remaining entries and
\* the next scanner pass publishes the entry again.
C22_MarkFailureRepublishedNextPass ==
    last.op = "passes"
       => \A k \in MarkFailed(last.body) :
             /\ PublishCalls(last.body.first.calls) =
                   [j \in DOMAIN last.body.entries |->
                       PublishCall(last.body.entries[j])]
             /\ \E i \in DOMAIN last.body.second.calls :
                   last.body.second.calls[i] = PublishCall(last.body.entries[k])

\* C22 amended: when a scanner pass publishes an entry and its MarkRecovered
\* call fails, the pass goes on with the remaining entries, each getting its
\* publish attempt, and the entry is left unrecovered; the next pass fetches
\* it and attempts its publish again exactly when its failure time is still
\* within the last 24 hours at that pass.
C22_MarkFailureRepublishedWhileRecent ==
    last.op = "passes"
       => \A k \in MarkFailed(last.body) :
             LET entry == last.body.entries[k] IN
             /\ PublishCalls(last.body.first.calls) =
                   [j \in DOMAIN last.body.entries |->
                       PublishCall(last.body.entries[j])]
             /\ ~last.body.first.store[entry.DLQID].Recovered
             /\ (entry.FailedAt > last.body.t + last.body.dt - RecencyHours)
                   <=> \E i \in DOMAIN last.body.second.calls :
                          last.body.second.calls[i] = PublishCall(entry)

\* in a pass over two entries the first was published and its mark failed,
\* the second was published and marked; the next pass, in the same hour,
\* fetched the first entry only and published it again
C22_Witness ==
    /\ last.op = "passes"
    /\ Len(last.body.entries) = 2
    /\ last.body.pubOK = <<TRUE, TRUE>>
    /\ last.body.markFault = <<TRUE, FALSE>>
    /\ last.body.dt = 0
    /\ Len(last.body.first.calls) = 4
    /\ IDs(last.body.entries2) = <<last.body.entries[1].DLQID>>
    /\ last.body.second.calls[1] = PublishCall(last.body.entries[1])

\* an entry a scanner pass is there to recover
Unrecovered(id) ==
    id \in DOMAIN store /\ store[id].Recoverable /\ ~store[id].Recovered

IsRecovered(id) == id \in DOMAIN store /\ store[id].Recovered

\* the entry's failure is more than 24 hours old, or exactly that
Aged(id) == id \in DOMAIN store /\ store[id].FailedAt <= now - RecencyHours

\* C23 as stated: as long as an entry is recoverable and unrecovered every
\* scanner pass fetches it for a publish attempt, and if passes keep
\* occurring and publish and MarkRecovered eventually succeed, the entry is
\* eventually recovered.
C23_RecoverableEventuallyRecovered ==
    /\ []((last.actor = "scanner" /\ last.op = "list" /\ last.ok)
            => \A id \in DLQIDs :
                  Unrecovered(id)
                     => \E i \in DOMAIN scanner.queue : scanner.queue[i].DLQID = id)
    /\ \A id \in DLQIDs : Unrecovered(id) ~> IsRecovered(id)

\* C23 amended: as long as an entry is recoverable, unrecovered and less
\* than 24 hours old every scanner pass fetches it for a publish attempt,
\* and if passes keep occurring and publish and MarkRecovered eventually
\* succeed, the entry is eventually recovered unless it turns 24 hours old
\* first.
C23_RecentEventuallyRecovered ==
    /\ []((last.actor = "scanner" /\ last.op = "list" /\ last.ok)
            => \A id \in DLQIDs :
                  (Unrecovered(id) /\ ~Aged(id))
                     => \E i \in DOMAIN scanner.queue : scanner.queue[i].DLQID = id)
    /\ \A id \in DLQIDs : Unrecovered(id) ~> (IsRecovered(id) \/ Aged(id))

\* the scanner has recovered one entry within its day while the other one,
\* recoverable too, still waits for a pass
C23_Witness ==
    /\ last.actor = "scanner"
    /\ last.op = "mark"
    /\ last.ok
    /\ now = 0
    /\ store[last.id].RecoveredBy = byAutoScanner
    /\ \E id \in DLQIDs : Unrecovered(id) /\ ~Aged(id)

\* C24: once the context is cancelled the loop of a started scanner
\* eventually exits, from its select only, so that a pass in flight runs to
\* its end first, and a blocked Wait then returns; Wait never returns while
\* the loop runs or a pass is in flight.
C24_ScannerStopsAndWaitReturns ==
    /\ []((last.actor = "wait" /\ last.op = "return")
            => (scanner.pc = "stopped" /\ scanner.queue = <<>>))
    /\ [](scanner.pc = "stopped" => cancelled)
    /\ [][(scanner'.pc = "stopped" /\ scanner.pc # "stopped")
            => (scanner.pc = "select" /\ scanner.queue = <<>> /\ cancelled)]_vars
    /\ [][scanner.pc = "stopped" => scanner'.pc = "stopped"]_vars
    /\ (cancelled /\ scanner.pc # "new") ~> (scanner.pc = "stopped")
    /\ \A r \in Slots :
          (cancelled /\ scanner.pc # "new" /\ reqs[r].kind = "wait")
             ~> (reqs[r].kind # "wait")

\* Wait has returned after the scanner, which had published an entry and
\* marked it recovered, left its loop
C24_Witness ==
    /\ last.actor = "wait"
    /\ last.op = "return"
    /\ scanner.pc = "stopped"
    /\ cancelled
    /\ \E id \in DOMAIN store : store[id].RecoveredBy = byAutoScanner

\* C25: a successful ListRecoverable returns exactly the rows that are
\* recoverable, not recovered and failed less than 24 hours before the
\* query, each once and as stored, ordered by ascending failure time; no
\* recovered, non-recoverable or older row is in the result.
C25_ListRecoverableExact ==
    (last.actor = "store" /\ last.op = "list-recoverable" /\ last.ok) =>
        LET out == last.body.entries
            t == last.body.t
        IN /\ {out[i].DLQID : i \in DOMAIN out}
                = {id \in DOMAIN store : /\ store[id].Recoverable
                                         /\ ~store[id].Recovered
                                         /\ t - store[id].FailedAt < RecencyHours}
           /\ \A i \in DOMAIN out : out[i] = store[out[i].DLQID]
           /\ \A i, j \in DOMAIN out : i # j => out[i].DLQID # out[j].DLQID
           /\ \A i, j \in DOMAIN out : i < j => out[i].FailedAt <= out[j].FailedAt
           /\ \A i \in DOMAIN out : /\ out[i].Recoverable
                                     /\ ~out[i].Recovered
                                     /\ out[i].FailedAt > t - RecencyHours

\* C25 happens: two rows of different failure times are returned from a
\* table whose third row failed exactly 24 hours before the query
C25_Witness ==
    /\ last.actor = "store" /\ last.op = "list-recoverable" /\ last.ok
    /\ Len(last.body.entries) = 2
    /\ last.body.entries[1].FailedAt < last.body.entries[2].FailedAt
    /\ \E id \in DOMAIN store : /\ store[id].Recoverable
                                /\ ~store[id].Recovered
                                /\ store[id].FailedAt = last.body.t - RecencyHours

\* the rows that match every filter of opts that is set
Matching(opts) ==
    {id \in DOMAIN store :
        /\ opts.Recovered = <<TRUE>> => store[id].Recovered
        /\ opts.Recovered = <<FALSE>> => ~store[id].Recovered
        /\ opts.Reason # "" => store[id].Reason = opts.Reason
        /\ opts.Source # "" => store[id].Source = opts.Source}

\* C26: a successful list returns rows that match every supplied filter
\* (recovered, reason, source; an unset filter matches all), newest first,
\* and as many of the newest matching rows as the limit allows, where an
\* unset or non-positive limit means 50; the response is a collection, empty
\* when nothing matches, never null.
C26_ListMatchesFilters ==
    (last.actor = "list" /\ last.op = "list" /\ last.ok) =>
        LET p == last.body.params
            opts == last.body.opts
            out == last.body.entries.items
            ids == {out[i].DLQID : i \in DOMAIN out}
            n == Cardinality(Matching(opts))
            lim == IF opts.Limit <= 0 THEN DefaultLimit ELSE opts.Limit
        IN /\ p.recovered = "" <=> opts.Recovered = <<>>
           /\ p.recovered = "true" => opts.Recovered = <<TRUE>>
           /\ p.recovered = "false" => opts.Recovered = <<FALSE>>
           /\ opts.Reason = p.reason /\ opts.Source = p.source
           /\ p.limit \in {"", "0", "-1"} => opts.Limit <= 0
           /\ p.limit = "1" => opts.Limit = 1
           /\ p.limit = "2" => opts.Limit = 2
           /\ ids \subseteq Matching(opts)
           /\ \A i \in DOMAIN out : out[i] = store[out[i].DLQID]
           /\ \A i, j \in DOMAIN out : i # j => out[i].DLQID # out[j].DLQID
           /\ \A i, j \in DOMAIN out : i < j => out[i].FailedAt >= out[j].FailedAt
           /\ Len(out) = IF n < lim THEN n ELSE lim
           /\ \A id \in Matching(opts) \ ids :
                 \A i \in DOMAIN out : store[id].FailedAt <= out[i].FailedAt
           /\ last.body.entries.null = FALSE
           /\ last.status = StatusOK

\* C26 happens: a list without a limit over a table of more than 50
\* matching rows returns the 50 newest
C26_Witness ==
    /\ last.actor = "list" /\ last.op = "list" /\ last.ok
    /\ last.body.params.limit = ""
    /\ last.body.params.reason = ""
    /\ Cardinality(Matching(last.body.opts)) > DefaultLimit
    /\ Len(last.body.entries.items) = DefaultLimit

\* the unrecovered rows of the store
UnrecoveredRows == {id \in DOMAIN store : ~store[id].Recovered}

\* C27: when its queries succeed, stats() reports the number of rows, the
\* number of unrecovered rows, the number of recoverable unrecovered rows,
\* and for each reason and each source of an unrecovered row the number of
\* unrecovered rows that have it, with no group for any other value; on an
\* empty table it succeeds with zero counts and no groups.
C27_StatsCountsRows ==
    (last.actor = "stats" /\ last.op = "stats" /\ ~last.fault) =>
        LET st == last.body IN
        /\ last.ok /\ last.status = StatusOK
        /\ st.Total = Cardinality(DOMAIN store)
        /\ st.Unrecovered = Cardinality(UnrecoveredRows)
        /\ st.Recoverable
             = Cardinality({id \in UnrecoveredRows : store[id].Recoverable})
        /\ DOMAIN st.ByReason = {store[id].Reason : id \in UnrecoveredRows}
        /\ \A v \in DOMAIN st.ByReason :
             st.ByReason[v]
               = Cardinality({id \in UnrecoveredRows : store[id].Reason = v})
        /\ DOMAIN st.BySource = {store[id].Source : id \in UnrecoveredRows}
        /\ \A v \in DOMAIN st.BySource :
             st.BySource[v]
               = Cardinality({id \in UnrecoveredRows : store[id].Source = v})
        /\ store = <<>> =>
             /\ st.Total = 0 /\ st.Unrecovered = 0 /\ st.Recoverable = 0
             /\ st.ByReason = <<>> /\ st.BySource = <<>>

\* C27 happens: stats over three rows, one of them recovered and with a
\* reason no unrecovered row has, the other two of one source
C27_Witness ==
    /\ last.actor = "stats" /\ last.op = "stats" /\ ~last.fault
    /\ last.body.Total = 3 /\ last.body.Unrecovered = 2
    /\ last.body.Recoverable = 1
    /\ \E id \in DOMAIN store :
         store[id].Recovered /\ store[id].Reason \notin DOMAIN last.body.ByReason
    /\ Cardinality(DOMAIN last.body.BySource) = 1

\* C28: Process makes no Insert call and leaves the store as it was when the
\* document cannot be deserialized, makes exactly one Insert call otherwise,
\* and does not call again when that Insert fails: the store is then as it
\* was.  No step of Process writes a status or an error to anyone.
C28_ProcessInsertsAtMostOnce ==
    [][(last'.actor = "processor") =>
          LET b == last'.body IN
          /\ Len(b.calls) <= 1
          /\ \A k \in DOMAIN b.calls : b.calls[k].call = "Insert"
          /\ b.malformed => b.calls = <<>> /\ store' = store
          /\ ~b.malformed => Len(b.calls) = 1
          /\ (~b.malformed /\ ~last'.ok) => store' = store
          /\ last'.status = 0]_vars

\* C28 happens: a malformed document has been dropped while the store holds
\* an entry
C28_Witness ==
    /\ last.actor = "processor" /\ last.op = "drop"
    /\ last.body.malformed /\ last.body.calls = <<>>
    /\ store # <<>>

\* C29: the row Process has just inserted has a non-null retry history, empty
\* when the document had none and the document's otherwise, and its source
\* is the document's when set, else warren when the subject starts with
\* "dlq.agent." and dispatch when it does not.
C29_InsertedDefaults ==
    (last.actor = "processor" /\ last.op = "insert" /\ last.ok
       /\ last.pre = "absent") =>
        LET b == last.body
            row == store[last.id]
        IN /\ last.id \in DOMAIN store
           /\ row.RetryHistory.null = FALSE
           /\ b.history.null => row.RetryHistory.attempts = <<>>
           /\ ~b.history.null => row.RetryHistory = b.history
           /\ b.source # "" => row.Source = b.source
           /\ (b.source = "" /\ HasPrefix(b.subject, "dlq.agent."))
                 => row.Source = SourceWarren
           /\ (b.source = "" /\ ~HasPrefix(b.subject, "dlq.agent."))
                 => row.Source = SourceDispatch

\* C29 happens: a document without source and without retry history that
\* arrived on an agent subject has been inserted
C29_Witness ==
    /\ last.actor = "processor" /\ last.op = "insert" /\ last.ok
    /\ last.pre = "absent"
    /\ last.body.source = "" /\ last.body.history.null
    /\ last.body.subject = "dlq.agent.custom"
    /\ store[last.id].Source = SourceWarren
    /\ store[last.id].RetryHistory = EmptyHistory

TaskReasons ==
    {ReasonNoCapableAgent, ReasonAllAgentsUnavailable, ReasonPolicyDenied,
     ReasonTimeoutAssigned, ReasonTimeoutInProgress, ReasonAgentCrashed}

AgentReasons == {ReasonBootFailure, ReasonPullFailure, ReasonCrashLoop}

\* C30: SubjectForReason gives a subject for every source and reason; each
\* of the six task reasons has a subject of its own under "dlq.task.", each
\* of the three agent reasons one of its own under "dlq.agent.", whatever the
\* source; every other reason gives "dlq.agent.unknown" when the source is
\* warren and "dlq.task.unknown" otherwise.
C30_SubjectForReasonTotal ==
    (last.actor = "publisher" /\ last.op = "subject") =>
        LET b == last.body IN
        /\ b.subject = SubjectForReason(b.source, b.reason)
        /\ b.reason \in TaskReasons => HasPrefix(b.subject, "dlq.task.")
        /\ b.reason \in AgentReasons => HasPrefix(b.subject, "dlq.agent.")
        /\ b.reason \in TaskReasons \cup AgentReasons =>
             /\ b.subject \notin {"dlq.task.unknown", "dlq.agent.unknown"}
             /\ \A s \in Sources : SubjectForReason(s, b.reason) = b.subject
             /\ \A s \in Sources, r \in Reasons \ {b.reason} :
                   SubjectForReason(s, r) # b.subject
        /\ (b.reason \notin TaskReasons \cup AgentReasons
              /\ b.source = SourceWarren) => b.subject = "dlq.agent.unknown"
        /\ (b.reason \notin TaskReasons \cup AgentReasons
              /\ b.source # SourceWarren) => b.subject = "dlq.task.unknown"

\* C30 happens: warren asks for the subject of a reason that has no subject
\* of its own
C30_Witness ==
    /\ last.actor = "publisher" /\ last.op = "subject"
    /\ last.body.source = SourceWarren
    /\ last.body.reason = ReasonHealthCheckFailed
    /\ last.body.subject = "dlq.agent.unknown"

\* C31: a Publish call makes at most one bus publish: none, with an error
\* returned and the bus as it was, when the entry cannot be serialized, and
\* exactly one otherwise, to the subject SubjectForReason gives for the
\* publisher's source and the reason; the document sent carries that source,
\* recovered = false and a retry history that is not null; when the bus
\* rejects the message the error is returned, nothing is sent again and the
\* bus is as it was.
C31_PublisherPublishesOnce ==
    [][(last'.actor = "publisher" /\ last'.op = "publish" /\ started' # started) =>
          LET b == last'.body IN
          /\ Len(b.calls) <= 1
          /\ b.opts.OriginalPayload = "{" =>
                b.calls = <<>> /\ b.err # "" /\ bus' = bus
          /\ b.opts.OriginalPayload # "{" =>
                /\ Len(b.calls) = 1
                /\ b.calls[1].subject = SubjectForReason(b.source, b.opts.Reason)
                /\ b.calls[1].data["source"] = b.source
                /\ b.calls[1].data["recovered"] = FALSE
                /\ b.calls[1].data["retry_history"].null = FALSE
                /\ b.opts.RetryHistory.null =>
                      b.calls[1].data["retry_history"].attempts = <<>>
                /\ last'.ok => /\ b.err = ""
                               /\ bus' = bus \cup {[Subject |-> b.calls[1].subject,
                                                     Data |-> b.calls[1].data]}
                /\ ~last'.ok => b.err # "" /\ bus' = bus]_vars

\* C31 happens: warren's publisher has sent an entry without retry history
\* and with a reason that has no subject of its own
C31_Witness ==
    /\ last.actor = "publisher" /\ last.op = "publish" /\ last.ok
    /\ last.body.source = SourceWarren
    /\ last.body.opts.Reason = ReasonHealthCheckFailed
    /\ last.body.opts.RetryHistory.null
    /\ \E msg \in bus : /\ msg.Subject = "dlq.agent.unknown"
                        /\ msg.Data["retry_history"] = EmptyHistory

\* C32: every message a manual retry, a retry-all or a scanner pass has
\* published carries the original subject and the original payload of one
\* stored entry, and both are what the ingested document of that entry
\* carried.
C32_RepublishedVerbatim ==
    \A msg \in bus :
        \E id \in DOMAIN store, m \in Messages :
            /\ ~m.malformed /\ m.entry.DLQID = id
            /\ msg.Subject = store[id].OriginalSubject
            /\ msg.Data = store[id].OriginalPayload
            /\ msg.Subject = m.entry.OriginalSubject
            /\ msg.Data = m.entry.OriginalPayload

\* a row without its three recovery columns
Ingested(row) ==
    [row EXCEPT !.Recovered = FALSE, !.RecoveredAt = <<>>, !.RecoveredBy = ""]

\* C33: no step removes a row; a step changes a row only in recovered,
\* recovered_at and recovered_by, and only when it is a MarkRecovered call
\* for that row's identifier that succeeded, so a MarkRecovered call for one
\* identifier changes no other row.
C33_OnlyMarkRecoveredChangesRows ==
    [][\A id \in DOMAIN store :
          /\ id \in DOMAIN store'
          /\ Ingested(store'[id]) = Ingested(store[id])
          /\ store'[id] # store[id] =>
                /\ last'.op = "mark" /\ last'.ok /\ last'.id = id
                /\ store'[id].Recovered /\ store'[id].RecoveredBy = last'.by]_vars

\* C33 happens: a MarkRecovered call has recovered one entry while another
\* entry is in the store, unrecovered
C33_Witness ==
    /\ last.op = "mark" /\ last.ok
    /\ store[last.id].Recovered
    /\ \E id \in DOMAIN store : id # last.id /\ ~store[id].Recovered

\* the documents whose insert wrote the row of id
IngestedFrom(id) ==
    {m \in Messages : /\ ~m.malformed
                      /\ Ingested(store[id])
                           = InsertRow(ProcessDefaults(m.subject, m.entry))}

\* C34: a row ingested from a document that carried recovered = true is
\* stored as recovered, and no scanner pass publishes it.
C34_RecoveredOnWireStaysRecovered ==
    /\ [](\A id \in DOMAIN store :
            (\E m \in IngestedFrom(id) : m.entry.Recovered) => store[id].Recovered)
    /\ [][(last'.actor = "scanner" /\ last'.op = "publish"
             /\ last'.id \in DOMAIN store)
            => \A m \in IngestedFrom(last'.id) : ~m.entry.Recovered]_vars

\* C35: once the context is cancelled and the scanner is in its select, with
\* no pass in flight, no step of the scanner begins a pass.
C35_NoPassAfterCancel ==
    [][(cancelled /\ scanner.pc = "select")
          => ~(last'.actor = "scanner" /\ last'.op = "list")]_vars

\* a list of entries in ascending failure time
OldestFirst(q) == \A i, j \in DOMAIN q : i < j => q[i].FailedAt <= q[j].FailedAt

\* the entries a pass works on after a step: those it had, or those without
\* the first
SameOrRest(q2, q) == q2 = q \/ (q # <<>> /\ q2 = Tail(q))

\* C36: what a scanner pass or a retry-all has still to publish is in
\* ascending failure time and holds only entries that were in the store when
\* ListRecoverable was called; each publish attempt is for the first of
\* them, and a step in a pass only drops the first, so that an entry
\* inserted during a pass is not published in it.
C36_PublishInListOrder ==
    /\ [](OldestFirst(scanner.queue))
    /\ [](\A r \in Slots : reqs[r].kind = "retry-all" =>
             /\ OldestFirst(reqs[r].queue)
             /\ Len(reqs[r].done) <= Len(reqs[r].fetched)
             /\ reqs[r].done = SubSeq(reqs[r].fetched, 1, Len(reqs[r].done)))
    /\ [][/\ (scanner.pc = "select" /\ scanner'.pc = "publish") =>
              \A k \in DOMAIN scanner'.queue :
                 /\ scanner'.queue[k].DLQID \in DOMAIN store
                 /\ scanner'.queue[k] = store[scanner'.queue[k].DLQID]
          /\ scanner.pc \in {"publish", "mark"} =>
              SameOrRest(scanner'.queue, scanner.queue)
          /\ (scanner.pc = "publish" /\ scanner' # scanner) =>
              /\ last'.actor = "scanner" /\ last'.op = "publish"
              /\ last'.id = Head(scanner.queue).DLQID
          /\ \A r \in Slots :
              /\ (reqs[r].kind = "idle" /\ reqs'[r].kind = "retry-all") =>
                   \A k \in DOMAIN reqs'[r].queue :
                      reqs'[r].queue[k] = store[reqs'[r].queue[k].DLQID]
              /\ reqs[r].kind = "retry-all" =>
                   \/ reqs'[r] = Idle
                   \/ SameOrRest(reqs'[r].queue, reqs[r].queue)
              /\ (reqs[r].kind = "retry-all" /\ reqs[r].pc = "publish"
                    /\ reqs'[r] # reqs[r]) =>
                   /\ last'.actor = "retry-all" /\ last'.op = "publish"
                   /\ last'.id = Head(reqs[r].queue).DLQID]_vars

\* C36 happens: a retry-all has gone through two entries, the older one
\* first, while a scanner pass that listed before the older one was
\* inserted still has only the newer one to publish
C36_Witness ==
    /\ scanner.pc = "publish" /\ Len(scanner.queue) = 1
    /\ \E id \in DOMAIN store :
          /\ id # scanner.queue[1].DLQID
          /\ store[id].Recoverable
          /\ store[id].FailedAt < scanner.queue[1].FailedAt
    /\ \E r \in Slots :
          /\ reqs[r].kind = "retry-all"
          /\ Len(reqs[r].fetched) = 2 /\ reqs[r].done = reqs[r].fetched
          /\ store[reqs[r].fetched[1]].FailedAt < store[reqs[r].fetched[2]].FailedAt

\* the original message of the entry is among the messages the bus accepted
WasPublished(id) ==
    [Subject |-> store[id].OriginalSubject, Data |-> store[id].OriginalPayload]
        \in bus

\* the scanner or a request holds a copy of the entry it has fetched
Held(id) ==
    \/ \E k \in DOMAIN scanner.queue : scanner.queue[k].DLQID = id
    \/ \E r \in Slots : \E k \in DOMAIN reqs[r].queue : reqs[r].queue[k].DLQID = id

Discarded(id) == id \in DOMAIN store /\ store[id].RecoveredBy = byManualDiscard

\* C37 as stated: the original message of an entry whose recovered_by is
\* "manual-discard" has never been published.
C37_DiscardedNeverPublished ==
    \A id \in DOMAIN store : Discarded(id) => ~WasPublished(id)

\* C37, amended: a discard publishes nothing, and once an entry is recovered
\* by "manual-discard" and no scanner pass or request holds a copy fetched
\* before, no later step publishes it and no later pass or request takes it
\* up.
C37_DiscardedNotPublishedLater ==
    [][/\ (last'.actor = "discard" /\ started' # started) => bus' = bus
       /\ \A id \in DOMAIN store :
            (Discarded(id) /\ ~Held(id)) =>
                /\ ~Held(id)'
                /\ Discarded(id)'
                /\ WasPublished(id)' <=> WasPublished(id)]_vars

\* C37 happens: a manual retry has found an entry that was discarded and was
\* never published, and has answered with a conflict
C37_Witness ==
    /\ last.actor = "retry" /\ last.op = "get" /\ last.status = StatusConflict
    /\ Discarded(last.id) /\ ~Held(last.id) /\ ~WasPublished(last.id)

RecoveryLabels == {byAPIRetry, byAPIRetryAll, byAutoScanner, byManualDiscard}

\* C38: a recovered entry has one of the four labels as recovered_by, exactly
\* one MarkRecovered call has succeeded for it, and the label is the one that
\* call passed: an entry becomes recovered only in a successful MarkRecovered
\* step for it, which writes its label, and a MarkRecovered call that fails,
\* as the call of an actor that published the entry and lost the race does,
\* leaves every row as it was.
C38_RecoveredByIsTheWinner ==
    /\ [](\A id \in DOMAIN store :
            store[id].Recovered => /\ store[id].RecoveredBy \in RecoveryLabels
                                   /\ markOK[id] = 1)
    /\ []((last.op = "mark" /\ last.ok) =>
            /\ store[last.id].Recovered
            /\ store[last.id].RecoveredBy = last.by)
    /\ [][/\ \A id \in DOMAIN store :
               (id \in DOMAIN store' /\ store'[id].RecoveredBy # store[id].RecoveredBy)
                  => /\ ~store[id].Recovered
                     /\ last'.op = "mark" /\ last'.ok /\ last'.id = id
                     /\ store'[id].RecoveredBy = last'.by
                     /\ markOK'[id] = markOK[id] + 1
          /\ (last'.op = "mark" /\ ~last'.ok /\ last' # last) => store' = store]_vars

\* C38 happens: the scanner published an entry it had fetched unrecovered,
\* a discard marked it first, and the scanner's MarkRecovered call failed,
\* leaving "manual-discard" in place
C38_Witness ==
    /\ last.op = "mark" /\ last.actor = "scanner" /\ ~last.ok /\ ~last.fault
    /\ last.snap = "unrecovered"
    /\ last.by = byAutoScanner
    /\ store[last.id].RecoveredBy = byManualDiscard
    /\ WasPublished(last.id)

\* C39: a manual retry of an entry that is in the store, unrecovered, goes on
\* to publish it when the store is reachable, and its MarkRecovered call,
\* like that of a discard, succeeds when the entry is still unrecovered and
\* the store reachable, with 200: whether the entry is recoverable and how
\* old it is plays no part.
C39_RetryIgnoresRecoverableAndAge ==
    /\ (last.actor = "retry" /\ last.op = "get" /\ last.pre = "unrecovered"
          /\ ~last.fault)
        => /\ last.ok /\ last.status = 0
           /\ \E r \in Slots : /\ reqs[r].kind = "retry" /\ reqs[r].id = last.id
                               /\ reqs[r].pc = "publish"
    /\ (last.actor \in {"retry", "discard"} /\ last.op = "mark"
          /\ last.pre = "unrecovered" /\ ~last.fault)
        => /\ last.ok /\ last.status = StatusOK
           /\ store[last.id].Recovered
           /\ store[last.id].RecoveredBy = last.by
           /\ last.actor = "retry" => WasPublished(last.id)

\* C39 happens: a manual retry has published and marked an entry that is not
\* recoverable and failed 24 hours ago
C39_Witness ==
    /\ last.actor = "retry" /\ last.op = "mark" /\ last.ok
    /\ ~store[last.id].Recoverable
    /\ store[last.id].FailedAt <= now - RecencyHours
    /\ store[last.id].RecoveredBy = byAPIRetry
    /\ WasPublished(last.id)

\* the sum of the counts of a GROUP BY result
RECURSIVE MapSum(_)
MapSum(f) ==
    IF DOMAIN f = {} THEN 0
    ELSE LET v == CHOOSE x \in DOMAIN f : TRUE IN
         f[v] + MapSum([x \in DOMAIN f \ {v} |-> f[x]])

\* the counts of one stats() result agree with each other
Consistent(st) ==
    /\ st.Recoverable <= st.Unrecovered
    /\ st.Unrecovered <= st.Total
    /\ MapSum(st.ByReason) = st.Unrecovered
    /\ MapSum(st.BySource) = st.Unrecovered

====
